---- MODULE Spec2Model ----
(***************************************************************************)
(* A model of mixmasta's normalization engine (src/mixmasta/normalizer.py):*)
(* handle_colname_collisions, audit_renamed_col_dict, geocode and the      *)
(* normalizer pipeline itself.                                             *)
(*                                                                         *)
(* A pandas DataFrame is a record [idx, cols]: idx is the row index and    *)
(* cols the sequence of columns, each [name, data] with one cell per row.  *)
(* Column names may repeat, as in pandas.  Every cell is a string; NULL    *)
(* stands for None/NaN.  A Python dict whose iteration order matters is a  *)
(* sequence of <<key, value>> pairs; one whose order does not is a         *)
(* function.  An annotation of the mapper is a record with every key       *)
(* present: an absent "qualifies"/"associated_columns" is the empty         *)
(* sequence and an absent "primary_*" is FALSE, which is how the code       *)
(* reads them ("k in d and d[k]").                                          *)
(***************************************************************************)
EXTENDS Integers, Sequences, FiniteSets, TLC

VARIABLES
    pc,                 \* position in the operation being run
    mapper,             \* the annotation schema [geo, date, feature]
    df,                 \* the working table
    renamed_col_dict,   \* the rename ledger: new name -> list of old names
    qualified_col_dict, \* qualified column -> list of qualifier columns
    features,           \* the pivot worklist
    col_order,          \* output column order
    protected_cols,     \* reserved columns present in the working table
    df_out,             \* the table normalizer returns
    df_geocode,         \* the geocode cache
    sjoin_log,          \* what gpd.sjoin was given: by the last call, and
                        \* how many times each coordinate pair in all
    input               \* what the operation was called with

vars == <<pc, mapper, df, renamed_col_dict, qualified_col_dict, features,
          col_order, protected_cols, df_out, df_geocode, sjoin_log, input>>

-----------------------------------------------------------------------------
(* Bounds *)

MaxRows == 2      \* rows of an input table
MaxValLen == 2    \* source columns listed by one ledger entry
MaxCache == 6     \* rows of the geocode cache

-----------------------------------------------------------------------------
(* Constants of the program *)

NULL == "NULL"

COL_ORDER ==
    <<"timestamp", "country", "admin1", "admin2", "admin3", "lat", "lng",
      "feature", "value">>

required_cols ==
    <<"timestamp", "country", "admin1", "admin2", "admin3", "lat", "lng">>

suffix == "_non_primary"

GEO_TYPE_COUNTRY == "country"
GEO_TYPE_ADMIN1 == "state/territory"
GEO_TYPE_ADMIN2 == "county/district"
GEO_TYPE_ADMIN3 == "municipality/town"

-----------------------------------------------------------------------------
(* Sequences and dicts *)

IsIn(x, s) == \E i \in 1..Len(s) : s[i] = x

Range(s) == {s[i] : i \in 1..Len(s)}

RECURSIVE Flatten(_)
Flatten(ss) == IF ss = <<>> THEN <<>> ELSE Head(ss) \o Flatten(Tail(ss))

RECURSIVE JoinStr(_)
\* "".join(v)
JoinStr(v) == IF v = <<>> THEN "" ELSE Head(v) \o JoinStr(Tail(v))

\* d[k] = v on a dict held as a function
DictPut(d, k, v) == [x \in DOMAIN d \cup {k} |-> IF x = k THEN v ELSE d[x]]

EmptyDict == [x \in {} |-> <<>>]

\* an ordered dict: a sequence of <<key, value>> pairs with distinct keys
OHas(od, k) == \E i \in 1..Len(od) : od[i][1] = k

OGet(od, k) == od[CHOOSE i \in 1..Len(od) : od[i][1] = k][2]

\* od[k].append(x) if k in od else od[k] = [x]
OAppendTo(od, k, x) ==
    IF OHas(od, k)
    THEN [i \in 1..Len(od) |->
            IF od[i][1] = k THEN <<k, Append(od[i][2], x)>> ELSE od[i]]
    ELSE Append(od, <<k, <<x>>>>)

\* od[k] = v
OPut(od, k, v) ==
    IF OHas(od, k)
    THEN [i \in 1..Len(od) |-> IF od[i][1] = k THEN <<k, v>> ELSE od[i]]
    ELSE Append(od, <<k, v>>)

-----------------------------------------------------------------------------
(* Tables *)

NRows(t) == Len(t.idx)

ColNames(t) == [i \in 1..Len(t.cols) |-> t.cols[i].name]

\* c in df
HasCol(t, c) == \E i \in 1..Len(t.cols) : t.cols[i].name = c

\* no two columns of the table bear the same name
UniqueCols(t) ==
    \A i, j \in 1..Len(t.cols) : t.cols[i].name = t.cols[j].name => i = j

\* df.rename(columns={old: new}): every column named old
RenameCol(t, old, new) ==
    [t EXCEPT !.cols = [i \in 1..Len(@) |->
        IF @[i].name = old THEN [@[i] EXCEPT !.name = new] ELSE @[i]]]

\* the columns named c, in table order
ColsNamed(t, c) == SelectSeq(t.cols, LAMBDA col : col.name = c)

\* df[names]: for each name in turn, every column that bears it
SelectCols(t, names) ==
    [t EXCEPT !.cols = Flatten([i \in 1..Len(names) |-> ColsNamed(t, names[i])])]

\* df[names] raises KeyError when a name is no column
CanSelect(t, names) == \A i \in 1..Len(names) : HasCol(t, names[i])

\* the data of the (first) column named c
ColData(t, c) == ColsNamed(t, c)[1].data

\* df[c] = data: every column named c is overwritten, else one is appended
SetCol(t, c, data) ==
    IF HasCol(t, c)
    THEN [t EXCEPT !.cols = [i \in 1..Len(@) |->
            IF @[i].name = c THEN [@[i] EXCEPT !.data = data] ELSE @[i]]]
    ELSE [t EXCEPT !.cols = Append(@, [name |-> c, data |-> data])]

\* a column holding one scalar on every row
ConstData(t, v) == [r \in 1..NRows(t) |-> v]

\* pandas.DataFrame()
EmptyTable == [idx |-> <<>>, cols |-> <<>>]

-----------------------------------------------------------------------------
(* handle_colname_collisions *)

\* the three annotation lists in the order mapper.items() yields them
MapperKinds == <<"geo", "date", "feature">>

AllAnnotations(m) == m.geo \o m.date \o m.feature

AnnNames(anns) == [i \in 1..Len(anns) |-> anns[i].name]

\* names of geo/date annotations that collide and are not primary
NonPrimaryColliding(anns, protected) ==
    AnnNames(SelectSeq(anns,
        LAMBDA d : IsIn(d.name, protected) /\ ~d.primary))

\* names of feature annotations that collide and qualify another column
QualifyingColliding(anns, protected) ==
    AnnNames(SelectSeq(anns,
        LAMBDA d : IsIn(d.name, protected) /\ d.qualifies # <<>>))

collision_list(m, protected) ==
    NonPrimaryColliding(m.geo, protected)
        \o NonPrimaryColliding(m.date, protected)
        \o QualifyingColliding(m.feature, protected)

RECURSIVE RenameCollisions(_, _)
\* for col in collision_list: df.rename(columns={col: col + suffix})
RenameCollisions(t, cl) ==
    IF cl = <<>> THEN t
    ELSE RenameCollisions(RenameCol(t, Head(cl), Head(cl) \o suffix), Tail(cl))

RECURSIVE CollisionLedger(_, _)
\* for col in collision_list: renamed_col_dict[col + suffix] = [col]
CollisionLedger(d, cl) ==
    IF cl = <<>> THEN d
    ELSE CollisionLedger(DictPut(d, Head(cl) \o suffix, <<Head(cl)>>), Tail(cl))

Suffixed(w, cl) == IF IsIn(w, cl) THEN w \o suffix ELSE w

\* mutant: the table column is renamed but the annotation keeps its name
UpdateAnnotationKeepName(dct, cl) ==
    IF dct.qualifies # <<>>
    THEN [dct EXCEPT !.qualifies =
            [i \in 1..Len(@) |-> Suffixed(@[i], cl)]]
    ELSE dct

\* the if / elif / elif applied to one annotation of the mapper
UpdateAnnotation(dct, cl) ==
    IF IsIn(dct.name, cl)
    THEN [dct EXCEPT !.name = @ \o suffix]
    ELSE IF dct.qualifies # <<>>
    THEN [dct EXCEPT !.qualifies =
            [i \in 1..Len(@) |-> Suffixed(@[i], cl)]]
    ELSE IF dct.associated_columns # <<>>
    THEN [dct EXCEPT !.associated_columns =
            [i \in 1..Len(@) |-> <<@[i][1], Suffixed(@[i][2], cl)>>]]
    ELSE dct

UpdateMapper(m, cl) ==
    [k \in DOMAIN m |-> [i \in 1..Len(m[k]) |-> UpdateAnnotation(m[k][i], cl)]]

\* returns [df, mapper, renamed_col_dict]
handle_colname_collisions(t, m, protected) ==
    LET cl == collision_list(m, protected)
    IN  IF cl = <<>>
        THEN [df |-> t, mapper |-> m, renamed_col_dict |-> EmptyDict]
        ELSE [df |-> RenameCollisions(t, cl),
              mapper |-> UpdateMapper(m, cl),
              renamed_col_dict |-> CollisionLedger(EmptyDict, cl)]

-----------------------------------------------------------------------------
(* audit_renamed_col_dict *)

\* [k] in dct.values()
IsValue(dct, v) == \E k \in DOMAIN dct : dct[k] = v

\* mutant: "vstr == k" for "vstr in dct.keys()": only a name renamed to
\* itself is marked
remove_these_self_only(dct) ==
    UNION {IF JoinStr(dct[k]) = k /\ IsValue(dct, <<k>>)
           THEN {JoinStr(dct[k]), k} ELSE {} : k \in DOMAIN dct}

remove_these(dct) ==
    UNION {IF JoinStr(dct[k]) \in DOMAIN dct /\ IsValue(dct, <<k>>)
           THEN {JoinStr(dct[k]), k} ELSE {} : k \in DOMAIN dct}

audit_renamed_col_dict(dct) ==
    [k \in (DOMAIN dct) \ remove_these(dct) |-> dct[k]]

-----------------------------------------------------------------------------
(* geocode *)

\* the columns of the reference polygons for each administrative depth
GadmCols(admin) ==
    IF admin \in {"admin0", "country"} THEN <<"country">>
    ELSE IF admin = "admin1" THEN <<"country", "admin1">>
    ELSE IF admin = "admin2" THEN <<"country", "admin1", "admin2">>
    ELSE <<"country", "admin1", "admin2", "admin3">>

\* the reference polygons: the point ("1", y) lies in country "K", admin1
\* "A<y>"; every other point lies in no polygon.  Polygons do not overlap.
PolygonOf(p) ==
    IF p[1] = "1"
    THEN <<"K", "A" \o p[2], "B" \o p[2], "C" \o p[2]>>
    ELSE <<NULL, NULL, NULL, NULL>>

\* gpd.sjoin(how="left", op="within") for one point: its polygon's columns,
\* or nulls when the point is within none
sjoin(p, admin) ==
    [lng |-> p[1], lat |-> p[2],
     vals |-> SubSeq(PolygonOf(p), 1, Len(GadmCols(admin)))]

\* df[[x, y]] as a sequence of pairs, one per row
Pairs(t, x, y) ==
    [r \in 1..NRows(t) |-> <<ColData(t, x)[r], ColData(t, y)[r]>>]

RECURSIVE DropDuplicates(_, _)
\* drop_duplicates(subset=[x, y]): the first occurrence of each pair is kept
DropDuplicates(s, seen) ==
    IF s = <<>> THEN <<>>
    ELSE IF Head(s) \in seen THEN DropDuplicates(Tail(s), seen)
    ELSE <<Head(s)>> \o DropDuplicates(Tail(s), seen \cup {Head(s)})

CacheKeys(cache) == {<<cache[i].lng, cache[i].lat>> : i \in 1..Len(cache)}

\* mutant: the indicator filter is left out, every pair goes on
left_only_unfiltered(dd, cache) == dd

\* 2) the pairs that the indicator merge marks "left_only"
left_only(dd, cache) ==
    IF cache # <<>> /\ dd # <<>>
    THEN SelectSeq(dd, LAMBDA p : p \notin CacheKeys(cache))
    ELSE dd

\* 4) the spatial join of the pairs that are left
SpatialJoin(dd, admin) == [i \in 1..Len(dd) |-> sjoin(dd[i], admin)]

\* mutant: the new geocoding replaces the library
updated_cache_overwrite(cache, gdf) == gdf

\* 5) the new geocoding is added to the library
updated_cache(cache, gdf) ==
    IF cache # <<>> THEN cache \o gdf ELSE gdf

\* the cache entries a row's pair merges with: every entry of that pair, or
\* one of nulls when there is none (how="left")
CacheVals(cache, p, n) ==
    LET hits == SelectSeq(cache, LAMBDA e : <<e.lng, e.lat>> = p)
    IN  IF hits = <<>> THEN <<[j \in 1..n |-> NULL]>>
        ELSE [i \in 1..Len(hits) |-> hits[i].vals]

RangeIndex(n) == [r \in 1..n |-> r - 1]

\* mutant: the rows no polygon was found for are left out of the result
MergeCacheResolvedOnly(t, cache, x, y, admin) ==
    LET gc == GadmCols(admin)
        pairs == Pairs(t, x, y)
        joined == Flatten([r \in 1..NRows(t) |->
                    LET vs == SelectSeq(CacheVals(cache, pairs[r], Len(gc)),
                                        LAMBDA v : v[1] # NULL)
                    IN  [i \in 1..Len(vs) |-> [row |-> r, vals |-> vs[i]]]])
    IN  [idx |-> RangeIndex(Len(joined)),
         cols |-> [i \in 1..Len(t.cols) |->
                    [name |-> t.cols[i].name,
                     data |-> [k \in 1..Len(joined) |->
                                t.cols[i].data[joined[k].row]]]]
                  \o [j \in 1..Len(gc) |->
                    [name |-> gc[j],
                     data |-> [k \in 1..Len(joined) |-> joined[k].vals[j]]]]]

\* 6) df.merge(df_geocode, how="left", on=[x, y]): one row per row of df and
\* matching cache entry, in the order of df, on a fresh index; a column on
\* both sides gets pandas's suffixes _x and _y
MergeCache(t, cache, x, y, admin) ==
    LET gc == GadmCols(admin)
        pairs == Pairs(t, x, y)
        joined == Flatten([r \in 1..NRows(t) |->
                    LET vs == CacheVals(cache, pairs[r], Len(gc))
                    IN  [i \in 1..Len(vs) |-> [row |-> r, vals |-> vs[i]]]])
        left == [i \in 1..Len(t.cols) |->
                    [name |-> IF IsIn(t.cols[i].name, gc)
                              THEN t.cols[i].name \o "_x"
                              ELSE t.cols[i].name,
                     data |-> [k \in 1..Len(joined) |->
                                t.cols[i].data[joined[k].row]]]]
        right == [j \in 1..Len(gc) |->
                    [name |-> IF HasCol(t, gc[j]) THEN gc[j] \o "_y" ELSE gc[j],
                     data |-> [k \in 1..Len(joined) |-> joined[k].vals[j]]]]
    IN  [idx |-> RangeIndex(Len(joined)), cols |-> left \o right]

\* returns [df, df_geocode, sjoined]: sjoined is what gpd.sjoin was given
\* mutant: the new rows are appended to the frame that was passed
passed_cache_extended(cache, lib) == lib

\* the frame the caller passed as df_geocode, once geocode has run: the
\* merges of steps 2 and 6 build new frames, append (line 1073) returns a
\* new frame and line 1075 rebinds the local name, so it keeps its rows
passed_cache(cache, lib) == cache

geocode(admin, t, x, y, cache) ==
    LET dd == left_only(DropDuplicates(Pairs(t, x, y), {}), cache)
        gdf == SpatialJoin(dd, admin)
        lib == IF dd # <<>> THEN updated_cache(cache, gdf) ELSE cache
    IN  [df |-> MergeCache(t, lib, x, y, admin),
         df_geocode |-> lib,
         sjoined |-> dd]

-----------------------------------------------------------------------------
(* match_geo_names: the names of the country and admin1 columns are        *)
(* reconciled with the gazetteer loaded from gadm36_2.feather.  The admin2 *)
(* and admin3 blocks repeat the admin1 block on their own column.          *)

\* the gazetteer: one row per area, in file order
Gadm ==
    <<[country |-> "Ethiopia", admin1 |-> "Oromia"],
      [country |-> "Kenya", admin1 |-> "Nakuru"]>>

\* fuzz.partial_ratio(query, choice) on the names of the model, as
\* <<query, choice, score>>
PartialRatio ==
    {<<"Etiopia", "Ethiopia", 86>>, <<"Etiopia", "Kenya", 20>>,
     <<"Somalia", "Ethiopia", 50>>, <<"Somalia", "Kenya", 20>>,
     <<"Oromiya", "Oromia", 83>>, <<"Oromiya", "Nakuru", 25>>,
     <<"Oromia", "Oromia", 100>>, <<"Oromia", "Nakuru", 22>>,
     <<"Nakuru", "Oromia", 25>>, <<"Nakuru", "Nakuru", 100>>,
     <<"Qq", "Oromia", 0>>, <<"Qq", "Nakuru", 0>>}

partial_ratio(query, choice) ==
    (CHOOSE e \in PartialRatio : e[1] = query /\ e[2] = choice)[3]

\* score_cutoff of fuzzyprocess.extractOne: the calls pass none, so the
\* default applies
score_cutoff == 0

\* fuzzyprocess.extractOne(query, choices, scorer=fuzz.partial_ratio): the
\* first of the best-scoring choices that reach score_cutoff, or NULL
extractOne(query, choices) ==
    LET ok == SelectSeq(choices,
                LAMBDA c : partial_ratio(query, c) >= score_cutoff)
    IN  IF ok = <<>> THEN NULL
        ELSE ok[CHOOSE i \in 1..Len(ok) :
                    /\ \A j \in 1..Len(ok) :
                        partial_ratio(query, ok[j]) <= partial_ratio(query, ok[i])
                    /\ \A j \in 1..(i - 1) :
                        partial_ratio(query, ok[j]) < partial_ratio(query, ok[i])]

RECURSIVE ReplaceUnknowns(_, _, _)
\* for unk in unknowns: match = extractOne(unk, choices);
\* if match != None: df.loc[df.col == unk, col] = match[0]
ReplaceUnknowns(data, unknowns, choices) ==
    IF unknowns = <<>> THEN data
    ELSE LET unk == Head(unknowns)
             match == extractOne(unk, choices)
         IN  ReplaceUnknowns(
                [r \in 1..Len(data) |->
                    IF match # NULL /\ data[r] = unk THEN match ELSE data[r]],
                Tail(unknowns), choices)

\* gadm[gadm.country == c]["admin1"].unique()
GadmAdmin1(gadm, c) ==
    LET rows == SelectSeq(gadm, LAMBDA g : g.country = c)
    IN  DropDuplicates([i \in 1..Len(rows) |-> rows[i].admin1], {})

RECURSIVE CountryLoop(_, _, _, _)
\* lines 1164-1185, "for c in countries", the admin1 block
CountryLoop(t, countries, gadm, resolve) ==
    IF countries = <<>> THEN t
    ELSE LET c == Head(countries)
             admin1_list == GadmAdmin1(gadm, c)
             rows == SelectSeq([r \in 1..NRows(t) |-> r], LAMBDA r :
                        /\ ColData(t, "country")[r] = c
                        /\ ~IsIn(ColData(t, "admin1")[r], admin1_list)
                        /\ ColData(t, "admin1")[r] # NULL)
             unknowns == [i \in 1..Len(rows) |-> ColData(t, "admin1")[rows[i]]]
             t1 == IF /\ IsIn(GEO_TYPE_ADMIN1, resolve)
                      /\ \A i \in 1..Len(admin1_list) : admin1_list[i] # ""
                      /\ HasCol(t, "admin1")
                   THEN SetCol(t, "admin1",
                            ReplaceUnknowns(ColData(t, "admin1"), unknowns,
                                            admin1_list))
                   ELSE t
         IN  CountryLoop(t1, Tail(countries), gadm, resolve)

\* lines 1143-1221.  countries is read before the country names are
\* corrected, and both the gazetteer filter and the loop use it
match_geo_names(t, resolve_to_gadm_geotypes) ==
    LET countries == DropDuplicates(ColData(t, "country"), {})
        gadm_country_list ==
            DropDuplicates([i \in 1..Len(Gadm) |-> Gadm[i].country], {})
        unknowns == SelectSeq(ColData(t, "country"),
                        LAMBDA c : ~IsIn(c, gadm_country_list))
        t1 == IF IsIn(GEO_TYPE_COUNTRY, resolve_to_gadm_geotypes)
              THEN SetCol(t, "country",
                        ReplaceUnknowns(ColData(t, "country"), unknowns,
                                        gadm_country_list))
              ELSE t
        gadm == SelectSeq(Gadm, LAMBDA g : IsIn(g.country, countries))
    IN  CountryLoop(t1, countries, gadm, resolve_to_gadm_geotypes)

-----------------------------------------------------------------------------
(* Dates: format_time, generate_timestamp_column, generate_timestamp_format,*)
(* generate_column_name, build_date_qualifies_field                        *)

MONTH_DAY_YEAR == <<"day", "month", "year">>

\* what format_time raises with validate=True
RAISE == "RAISE"

\* str(x), .astype(str): a null cell reads "nan"
Str(c) == IF c = NULL THEN "nan" ELSE c

\* datetime.strptime(t, fmt).timestamp() * 1000 on the date strings of the
\* model's tables, as <<t, fmt, epoch milliseconds>> (in UTC); every other
\* pair fails to parse
Calendar ==
    {<<"06/15/2020", "%m/%d/%Y", "1592179200000">>,
     <<"6/15/2020", "%m/%d/%Y", "1592179200000">>,
     <<"6/1/2020", "%m/%d/%Y", "1590969600000">>,
     <<"1/15/2020", "%m/%d/%Y", "1579046400000">>,
     <<"6/15/20", "%m/%d/%y", "1592179200000">>,
     <<"2021-03-26", "%Y-%m-%d", "1616716800000">>}

\* the strings format_time is called with in the model; 2/31/2020 is no
\* date, and the last three come from columns with a null cell
DateStrings ==
    {"06/15/2020", "6/15/2020", "6/1/2020", "1/15/2020", "6/15/20",
     "2021-03-26", "2/31/2020", "6.0/15/2020", "nan/15/2020", "nan"}

TimeFormats == {"%m/%d/%Y", "%m/%d/%y", "%Y-%m-%d"}

\* the strings that end with " 00:00:00", with that suffix removed
Midnight == {<<d \o " 00:00:00", d>> : d \in DateStrings}

RECURSIVE format_time_retry_default(_, _, _)
\* mutant: the retry leaves validate at its default, True
format_time_retry_default(t, time_format, validate) ==
    IF \E e \in Calendar : e[1] = t /\ e[2] = time_format
    THEN (CHOOSE e \in Calendar : e[1] = t /\ e[2] = time_format)[3]
    ELSE IF \E m \in Midnight : m[1] = t
    THEN format_time_retry_default((CHOOSE m \in Midnight : m[1] = t)[2],
                                   time_format, TRUE)
    ELSE IF validate THEN RAISE ELSE NULL

RECURSIVE format_time(_, _, _)
format_time(t, time_format, validate) ==
    IF \E e \in Calendar : e[1] = t /\ e[2] = time_format
    THEN (CHOOSE e \in Calendar : e[1] = t /\ e[2] = time_format)[3]
    ELSE IF \E m \in Midnight : m[1] = t
    THEN format_time((CHOOSE m \in Midnight : m[1] = t)[2],
                     time_format, validate)
    ELSE IF validate THEN RAISE ELSE NULL

\* df[c].apply(lambda x: format_time(str(x), time_format, validate=False))
ApplyFormatTime(data, time_format) ==
    [r \in 1..Len(data) |-> format_time(Str(data[r]), time_format, FALSE)]

\* the key of the last entry of date_mapper with the given date_type, or
\* NULL (None) when there is none
DateCol(date_mapper, t) ==
    LET hits == SelectSeq(date_mapper, LAMBDA e : e[2].type = t)
    IN  IF hits = <<>> THEN NULL ELSE hits[Len(hits)][1]

\* df[c].astype(str) for a column of whole numbers: a column with a null
\* cell is a float column, whose numbers read "9.0" and whose nulls "nan"
AsTypeStr(data) ==
    IF \E r \in 1..Len(data) : data[r] = NULL
    THEN [r \in 1..Len(data) |->
            IF data[r] = NULL THEN "nan" ELSE data[r] \o ".0"]
    ELSE data

\* one of day / month / year as strings, or the default when it is missing
DatePart(t, col, default) ==
    IF col # NULL THEN AsTypeStr(ColData(t, col))
    ELSE ConstData(t, default)

generate_timestamp_column(t, date_mapper, column_name) ==
    LET day == DatePart(t, DateCol(date_mapper, "day"), "1")
        month == DatePart(t, DateCol(date_mapper, "month"), "1")
        year == DatePart(t, DateCol(date_mapper, "year"), "01")
    IN  SetCol(t, column_name,
               [r \in 1..NRows(t) |->
                    month[r] \o "/" \o day[r] \o "/" \o year[r]])

\* the declared format of the last entry with the given date_type
DateFormat(date_mapper, t, default) ==
    LET hits == SelectSeq(date_mapper, LAMBDA e : e[2].type = t)
    IN  IF hits = <<>> THEN default ELSE hits[Len(hits)][2].time_format

generate_timestamp_format(date_mapper) ==
    DateFormat(date_mapper, "month", "%m") \o "/"
        \o DateFormat(date_mapper, "day", "%d") \o "/"
        \o DateFormat(date_mapper, "year", "%y")

\* the column names of the model in the order Python's sorted() puts them
SortedNames ==
    <<"admin1", "admin1_non_primary", "country", "country_non_primary",
      "d", "day", "feature", "flag", "lat", "lng", "m2", "month", "rain",
      "timestamp", "timestamp_non_primary", "value", "value_non_primary",
      "y2", "year">>

RankOf(n) == CHOOSE i \in 1..Len(SortedNames) : SortedNames[i] = n

\* "".join(sorted(field_list))
generate_column_name(field_list) ==
    JoinStr(SortSeq(field_list, LAMBDA a, b : RankOf(a) < RankOf(b)))

\* the first key of qualified_col_dict whose list equals assoc_fields
build_date_qualifies_field(qcd, assoc_fields) ==
    LET hits == SelectSeq(qcd, LAMBDA e : e[2] = assoc_fields)
    IN  IF hits = <<>> THEN NULL ELSE hits[1][1]

-----------------------------------------------------------------------------
(* normalizer, lines 96-323: collisions, column subset, dates.  A state of *)
(* the function is a record st of its locals.                              *)

primary_time_cols(m) == AnnNames(SelectSeq(m.date, LAMBDA d : d.primary))

other_time_cols(m) == AnnNames(SelectSeq(m.date, LAMBDA d : ~d.primary))

primary_geo_cols(m) == AnnNames(SelectSeq(m.geo, LAMBDA d : d.primary))

primary_geo_types(m) ==
    LET ps == SelectSeq(m.geo, LAMBDA d : d.primary)
    IN  [i \in 1..Len(ps) |-> ps[i].type]

mapper_keys(m) ==
    AnnNames(Flatten([i \in 1..Len(MapperKinds) |-> m[MapperKinds[i]]]))

RECURSIVE Register(_, _, _)
\* for q in qualifies: qualified_col_dict[q] gets name appended
Register(qcd, qualifies, name) ==
    IF qualifies = <<>> THEN qcd
    ELSE Register(OAppendTo(qcd, Head(qualifies), name), Tail(qualifies), name)

\* one turn of "for date_dict in mapper['date']"
DateTurn(st, d, m) ==
    LET n == d.name
        converted == SetCol(st.df, n,
                        ApplyFormatTime(ColData(st.df, n), d.time_format))
        st1 ==
            IF IsIn(n, primary_time_cols(m))
            THEN IF d.type = "date"
                 THEN [st EXCEPT !.df = RenameCol(converted, n, "timestamp")]
                 ELSE IF d.type = "epoch"
                 THEN [st EXCEPT !.df = RenameCol(st.df, n, "timestamp")]
                 ELSE IF IsIn(d.type, MONTH_DAY_YEAR)
                 THEN [st EXCEPT !.primary_date_group_mapper = OPut(@, n, d)]
                 ELSE st
            ELSE IF d.type = "date"
                 THEN IF primary_time_cols(m) = <<>>
                         /\ ~HasCol(converted, "timestamp")
                      THEN [st EXCEPT
                              !.df = RenameCol(converted, n, "timestamp"),
                              !.renamed_col_dict =
                                    DictPut(@, "timestamp", <<n>>),
                              !.features = Append(@, n)]
                      ELSE [st EXCEPT !.df = converted,
                                      !.features = Append(@, n)]
                 ELSE IF IsIn(d.type, MONTH_DAY_YEAR)
                         /\ d.associated_columns # <<>>
                 THEN [st EXCEPT !.other_date_group_mapper = OPut(@, n, d)]
                 ELSE [st EXCEPT !.features = Append(@, n)]
    IN  [st1 EXCEPT !.qualified_col_dict = Register(@, d.qualifies, n)]

RECURSIVE DateLoop(_, _, _)
DateLoop(st, dates, m) ==
    IF dates = <<>> THEN st
    ELSE DateLoop(DateTurn(st, Head(dates), m), Tail(dates), m)

\* "if primary_date_group_mapper:" the primary day/month/year fields
PrimaryDateGroup(st) ==
    IF st.primary_date_group_mapper = <<>> THEN st
    ELSE LET g == st.primary_date_group_mapper
             t1 == generate_timestamp_column(st.df, g, "timestamp")
         IN  [st EXCEPT !.df =
                SetCol(t1, "timestamp",
                    ApplyFormatTime(ColData(t1, "timestamp"),
                                    generate_timestamp_format(g)))]

\* one turn of "while other_date_group_mapper:"
DateGroupTurn(st) ==
    LET odgm == st.other_date_group_mapper
        popped == odgm[Len(odgm)]
        rest == SubSeq(odgm, 1, Len(odgm) - 1)
        assoc0 == [i \in 1..Len(popped[2].associated_columns) |->
                        popped[2].associated_columns[i][2]]
        \* the dict comprehension keeps the order of assoc_fields
        assoc_columns_dict ==
            Append(SelectSeq(
                       [i \in 1..Len(assoc0) |->
                            IF OHas(rest, assoc0[i])
                            THEN <<assoc0[i], OGet(rest, assoc0[i])>>
                            ELSE <<NULL, NULL>>],
                       LAMBDA e : e[1] # NULL),
                   popped)
        assoc_fields == Append(assoc0, popped[1])
        new_column_name ==
            IF ~HasCol(st.df, "timestamp") THEN "timestamp"
            ELSE generate_column_name(assoc_fields)
        t1 == generate_timestamp_column(st.df, assoc_columns_dict,
                                        new_column_name)
        date_types == {assoc_columns_dict[i][2].type :
                            i \in 1..Len(assoc_columns_dict)}
        t2 == IF Cardinality(date_types \cap Range(MONTH_DAY_YEAR)) = 3
              THEN SetCol(t1, new_column_name,
                        ApplyFormatTime(ColData(t1, new_column_name),
                            generate_timestamp_format(assoc_columns_dict)))
              ELSE t1
        qualified_col ==
            build_date_qualifies_field(st.qualified_col_dict, assoc_fields)
    IN  IF ~CanSelect(st.df, assoc_fields)
        THEN [st EXCEPT !.raised = TRUE, !.other_date_group_mapper = <<>>]
        ELSE [st EXCEPT
                !.other_date_group_mapper =
                    SelectSeq(rest, LAMBDA e : ~IsIn(e[1], assoc0)),
                !.df = t2,
                !.renamed_col_dict = DictPut(@, new_column_name, assoc_fields),
                !.features =
                    IF new_column_name # "timestamp" /\ qualified_col = NULL
                    THEN Append(@, new_column_name) ELSE @,
                !.qualified_col_dict =
                    IF new_column_name # "timestamp" /\ qualified_col # NULL
                    THEN OPut(@, qualified_col, <<new_column_name>>) ELSE @]

RECURSIVE DateGroupLoop(_)
DateGroupLoop(st) ==
    IF st.other_date_group_mapper = <<>> THEN st
    ELSE DateGroupLoop(DateGroupTurn(st))

-----------------------------------------------------------------------------
(* normalizer, lines 325-490: geo and feature annotations *)

\* data/iso_lookup.csv, as <<iso2, iso3, country>>
IsoLookup == {<<"US", "USA", "United States">>}

\* get_iso_country_dict(iso_list)[x] if x in it, else x; the first code's
\* length decides between the iso2 and the iso3 column
IsoCountry(x, iso_list) ==
    LET col == IF Len(iso_list[1]) = 2 THEN 1 ELSE 2
    IN  IF \E e \in IsoLookup : e[col] = x
        THEN (CHOOSE e \in IsoLookup : e[col] = x)[3]
        ELSE x

\* the reserved slot a promoted non-primary geo_type fills, or NULL
SlotOf(geo_type) ==
    IF geo_type = GEO_TYPE_COUNTRY THEN "country"
    ELSE IF geo_type = GEO_TYPE_ADMIN1 THEN "admin1"
    ELSE IF geo_type = GEO_TYPE_ADMIN2 THEN "admin2"
    ELSE IF geo_type = GEO_TYPE_ADMIN3 THEN "admin3"
    ELSE NULL

\* the branch taken for a primary geo annotation
PrimaryGeo(st, g) ==
    LET kk == g.name
        iso_list == IF HasCol(st.df, kk)
                    THEN DropDuplicates(ColData(st.df, kk), {}) ELSE <<>>
    IN  IF g.type = "latitude"
        THEN [st EXCEPT !.df = RenameCol(@, kk, "lat")]
        ELSE IF g.type = "longitude"
        THEN [st EXCEPT !.df = RenameCol(@, kk, "lng")]
        ELSE IF g.type = "coordinates"
        \* coords is a numpy array: coords.split raises AttributeError
        THEN [st EXCEPT !.raised = TRUE]
        ELSE IF g.type = GEO_TYPE_COUNTRY /\ kk # "country"
        THEN [st EXCEPT !.df = RenameCol(@, kk, "country")]
        ELSE IF g.type = GEO_TYPE_ADMIN1 /\ kk # "admin1"
        THEN [st EXCEPT !.df = RenameCol(@, kk, "admin1")]
        ELSE IF g.type = GEO_TYPE_ADMIN2 /\ kk # "admin2"
        THEN [st EXCEPT !.df = RenameCol(@, kk, "admin2")]
        ELSE IF g.type = GEO_TYPE_ADMIN3 /\ kk # "admin2"
        THEN [st EXCEPT !.df = RenameCol(@, kk, "admin3")]
        ELSE IF g.type \in {"iso2", "iso3", "ISO2", "ISO3"}
        THEN IF ~HasCol(st.df, kk) \/ (iso_list # <<>> /\ iso_list[1] = NULL)
             \* a missing column raises KeyError, len() of a NaN TypeError
             THEN [st EXCEPT !.raised = TRUE]
             ELSE [st EXCEPT !.df =
                    RenameCol(
                        SetCol(@, kk,
                            [r \in 1..NRows(@) |->
                                IsoCountry(ColData(@, kk)[r], iso_list)]),
                        kk, "country")]
        ELSE st

\* one turn of "for geo_dict in mapper['geo']"
GeoTurn(st, g, m) ==
    LET kk == g.name
    IN  IF IsIn(kk, primary_geo_cols(m)) THEN PrimaryGeo(st, g)
        ELSE IF g.qualifies # <<>>
        THEN [st EXCEPT !.qualified_col_dict = Register(@, g.qualifies, kk)]
        ELSE IF primary_geo_cols(m) = <<>> /\ SlotOf(g.type) # NULL
        THEN IF ~HasCol(st.df, kk) THEN [st EXCEPT !.raised = TRUE]
             ELSE [st EXCEPT
                    !.df = SetCol(@, SlotOf(g.type), ColData(@, kk)),
                    !.renamed_col_dict = DictPut(@, SlotOf(g.type), <<kk>>)]
        ELSE [st EXCEPT !.features = Append(@, kk)]

RECURSIVE GeoLoop(_, _, _)
GeoLoop(st, geos, m) ==
    IF geos = <<>> \/ st.raised THEN st
    ELSE GeoLoop(GeoTurn(st, Head(geos), m), Tail(geos), m)

\* df[[name]].replace(aliases_) and then .astype(str)
ApplyAliases(data, aliases) ==
    [r \in 1..Len(data) |->
        IF OHas(aliases, data[r]) THEN OGet(aliases, data[r])
        ELSE Str(data[r])]

\* one turn of "for feature_dict in mapper['feature']"
FeatureTurn(st, f) ==
    LET st1 ==
            IF f.qualifies = <<>>
            THEN [st EXCEPT !.features = Append(@, f.name)]
            ELSE [st EXCEPT !.qualified_col_dict =
                                Register(@, f.qualifies, f.name)]
    IN  IF f.aliases = <<>> THEN st1
        ELSE IF ~HasCol(st1.df, f.name) THEN [st1 EXCEPT !.raised = TRUE]
        ELSE [st1 EXCEPT !.df =
                SetCol(@, f.name,
                       ApplyAliases(ColData(@, f.name), f.aliases))]

RECURSIVE FeatureLoop(_, _)
FeatureLoop(st, feats) ==
    IF feats = <<>> \/ st.raised THEN st
    ELSE FeatureLoop(FeatureTurn(st, Head(feats)), Tail(feats))

-----------------------------------------------------------------------------
(* normalizer, lines 518-597: pivot and output *)

\* list(set(required_cols) & set(df.columns))
ProtectedIn(t) == SelectSeq(required_cols, LAMBDA c : HasCol(t, c))

RECURSIVE WidenProtected(_, _)
\* for k, v in qualified_col_dict.items(): if k in protected_cols, both
\* protected_cols and col_order are extended by v.  acc = [p, co]
WidenProtected(acc, qcd) ==
    IF qcd = <<>> THEN acc
    ELSE WidenProtected(
            IF IsIn(Head(qcd)[1], acc.p)
            THEN [p |-> acc.p \o Head(qcd)[2], co |-> acc.co \o Head(qcd)[2]]
            ELSE acc,
            Tail(qcd))

RECURSIVE AppendMissing(_, _)
\* for c in cs: if c not in col_order: col_order.append(c)
AppendMissing(co, cs) ==
    IF cs = <<>> THEN co
    ELSE AppendMissing(IF IsIn(Head(cs), co) THEN co ELSE Append(co, Head(cs)),
                       Tail(cs))

\* df_out.append(df_) fails on frames whose columns differ and repeat
CanConcat(a, b) ==
    ColNames(a) = ColNames(b) \/ (UniqueCols(a) /\ UniqueCols(b))

\* df_out.append(df_): rows stacked, columns united, gaps null
Concat(a, b) ==
    IF ColNames(a) = ColNames(b)
    THEN [idx |-> a.idx \o b.idx,
          cols |-> [i \in 1..Len(a.cols) |->
                [name |-> a.cols[i].name,
                 data |-> a.cols[i].data \o b.cols[i].data]]]
    ELSE LET names == AppendMissing(ColNames(a), ColNames(b))
         IN  [idx |-> a.idx \o b.idx,
              cols |-> [i \in 1..Len(names) |->
                [name |-> names[i],
                 data |->
                    (IF HasCol(a, names[i]) THEN ColData(a, names[i])
                     ELSE ConstData(a, NULL))
                    \o (IF HasCol(b, names[i]) THEN ColData(b, names[i])
                        ELSE ConstData(b, NULL))]]]

\* one turn of "for feat in features".  acc = [out, co, raised]
PivotTurn(acc, feat, t, protected, qcd) ==
    LET qs == IF OHas(qcd, feat) THEN OGet(qcd, feat) ELSE <<>>
        using_cols == protected \o qs
        co == AppendMissing(acc.co, qs)
        left == feat \o "_mixmasta_left"
        join_overlap == CanSelect(t, Append(using_cols, left))
        picked == SelectCols(t, Append(using_cols,
                                       IF join_overlap THEN left ELSE feat))
        labelled == SetCol(picked, "feature", ConstData(picked, feat))
        df_ == RenameCol(labelled, IF join_overlap THEN left ELSE feat,
                         "value")
    IN  IF ~join_overlap /\ ~CanSelect(t, Append(using_cols, feat))
        THEN [acc EXCEPT !.raised = TRUE, !.co = co]
        ELSE IF NRows(acc.out) = 0
        THEN [acc EXCEPT !.out = df_, !.co = co]
        ELSE IF ~CanConcat(acc.out, df_)
        THEN [acc EXCEPT !.raised = TRUE, !.co = co]
        ELSE [acc EXCEPT !.out = Concat(acc.out, df_), !.co = co]

RECURSIVE PivotLoop(_, _, _, _, _)
PivotLoop(acc, feats, t, protected, qcd) ==
    IF feats = <<>> \/ acc.raised THEN acc
    ELSE PivotLoop(PivotTurn(acc, Head(feats), t, protected, qcd),
                   Tail(feats), t, protected, qcd)

RECURSIVE FillMissing(_, _)
\* for c in col_order: if c not in df_out: df_out[c] = None
FillMissing(t, co) ==
    IF co = <<>> THEN t
    ELSE FillMissing(IF HasCol(t, Head(co)) THEN t
                     ELSE SetCol(t, Head(co), ConstData(t, NULL)),
                     Tail(co))

\* the rows at the given positions, in order
KeepRows(t, keep) ==
    LET pos == SelectSeq([r \in 1..NRows(t) |-> r], LAMBDA r : keep[r])
    IN  [idx |-> [i \in 1..Len(pos) |-> t.idx[pos[i]]],
         cols |-> [c \in 1..Len(t.cols) |->
            [name |-> t.cols[c].name,
             data |-> [i \in 1..Len(pos) |-> t.cols[c].data[pos[i]]]]]]

\* df_out.dropna(axis=0, subset=["value"])
dropna_value(t) ==
    KeepRows(t, [r \in 1..NRows(t) |->
        \A c \in 1..Len(t.cols) :
            t.cols[c].name = "value" => t.cols[c].data[r] # NULL])

-----------------------------------------------------------------------------
(* Inputs *)

\* the strftime pattern an annotation of date_type t declares
FormatOf(t) ==
    IF t = "day" THEN "%d"
    ELSE IF t = "month" THEN "%m"
    ELSE IF t = "year" THEN "%Y"
    ELSE "%m/%d/%Y"

Ann(n, k, t, p, q, a) ==
    [name |-> n, kind |-> k, type |-> t, primary |-> p, qualifies |-> q,
     associated_columns |-> a, time_format |-> FormatOf(t),
     aliases |-> <<>>, resolve_to_gadm |-> FALSE]

\* a table with the given column names and one row of data per index
TableOf(names, n) ==
    [idx |-> RangeIndex(n),
     cols |-> [i \in 1..Len(names) |->
                [name |-> names[i], data |-> [r \in 1..n |-> "v"]]]]

Idle ==
    [pc |-> "idle", mapper |-> [geo |-> <<>>, date |-> <<>>, feature |-> <<>>],
     df |-> EmptyTable, renamed_col_dict |-> EmptyDict,
     qualified_col_dict |-> <<>>, features |-> <<>>, col_order |-> <<>>,
     protected_cols |-> <<>>, df_out |-> EmptyTable, df_geocode |-> <<>>,
     sjoin_log |-> [last |-> <<>>, count |-> EmptyDict], input |-> <<>>]

-----------------------------------------------------------------------------
(* The inputs of normalizer: a schema made of a date/geo context and up to *)
(* two feature annotations, and a table of 1..MaxRows rows holding the     *)
(* annotated columns and one column no annotation names.                   *)

Feat(n, q, al) ==
    [Ann(n, "feature", "float", FALSE, q, <<>>) EXCEPT !.aliases = al]

Geo(n, t, p) == Ann(n, "geo", t, p, <<>>, <<>>)

Date(n, t, p) == Ann(n, "date", t, p, <<>>, <<>>)

\* feature column names: two plain ones and two reserved ones
FeatPool == <<"rain", "flag", "feature", "timestamp">>

AliasChoices(n) ==
    IF n = "rain" THEN {<<>>, << <<"1", "one">> >>} ELSE {<<>>}

\* a feature qualifies nothing, the other feature, or the timestamp column
FeatChoices(n, others) ==
    {Feat(n, q, al) :
        q \in {<<>>} \cup {<<o>> : o \in (others \cup {"timestamp"}) \ {n}},
        al \in AliasChoices(n)}

FeatureLists ==
    {<<>>}
    \cup UNION {{<<a>> : a \in FeatChoices(FeatPool[i], {})} :
                    i \in 1..Len(FeatPool)}
    \cup UNION {{<<a, b>> :
                    a \in FeatChoices(FeatPool[i], {FeatPool[j]}),
                    b \in FeatChoices(FeatPool[j], {FeatPool[i]})} :
                <<i, j>> \in {ij \in (1..Len(FeatPool)) \X (1..Len(FeatPool)) :
                                ij[1] < ij[2]}}

\* date and geo annotations: at most one primary date and one primary geo
\* representation each
Contexts ==
    {[date |-> <<>>, geo |-> <<>>],
     [date |-> <<Date("d", "date", TRUE)>>, geo |-> <<>>],
     [date |-> <<Date("d", "date", TRUE)>>,
      geo |-> <<Geo("lat", "latitude", TRUE), Geo("lng", "longitude", TRUE)>>],
     [date |-> <<Date("d", "date", FALSE)>>, geo |-> <<>>],
     [date |-> <<Date("d", "date", TRUE)>>,
      geo |-> <<Geo("country", GEO_TYPE_COUNTRY, FALSE)>>],
     [date |-> <<>>, geo |-> <<Geo("country", GEO_TYPE_COUNTRY, FALSE)>>],
     [date |-> <<Date("d", "date", TRUE)>>,
      geo |-> <<Geo("country", GEO_TYPE_COUNTRY, TRUE)>>],
     [date |-> <<Date("d", "epoch", TRUE), Date("day", "date", FALSE)>>,
      geo |-> <<>>]}

Mappers ==
    {[geo |-> c.geo, date |-> c.date, feature |-> fs] :
        c \in Contexts, fs \in FeatureLists}

\* which cells of a feature column are null
NullPatterns == {"none", "first", "all"}

\* the second row of a day/month/year group: a date, no date (day 31 of
\* month 2), or a row whose month is missing
DatePatterns == {"valid", "invalid", "gap"}

\* the cell of row r (r = 1 is the first row) of a column
CellOf(d, r, pattern) ==
    IF d.kind = "feature"
    THEN IF pattern = "all" \/ (pattern = "first" /\ r = 1) THEN NULL
         ELSE ToString(r)
    ELSE IF d.type = "epoch" THEN "1592179200000"
    ELSE IF d.type = "day"
    THEN IF r = 1 THEN "15" ELSE IF pattern = "invalid" THEN "31" ELSE "1"
    ELSE IF d.type = "month"
    THEN IF r = 1 THEN "6"
         ELSE IF pattern = "invalid" THEN "2"
         ELSE IF pattern = "gap" THEN NULL ELSE "6"
    ELSE IF d.type = "year" THEN "2020"
    ELSE IF d.kind = "date" THEN "06/15/2020"
    ELSE IF d.type = "longitude" THEN "1"
    ELSE IF d.type = "latitude" THEN ToString(r % 2)
    ELSE IF d.name = "zone" THEN "Z"
    ELSE "K"

\* the source table of a schema: its columns in mapper order, then "extra";
\* patterns gives the nulls of each feature column, dates the date pattern
SourceTable(m, n, patterns, dates) ==
    LET anns == AllAnnotations(m)
    IN  [idx |-> RangeIndex(n),
         cols |->
            [i \in 1..Len(anns) |->
                [name |-> anns[i].name,
                 data |-> [r \in 1..n |->
                    CellOf(anns[i], r,
                        IF anns[i].kind = "feature"
                        THEN patterns[i - Len(m.geo) - Len(m.date)]
                        ELSE dates)]]]
            \o <<[name |-> "extra", data |-> [r \in 1..n |-> "x"]]>>]

Init ==
    /\ pc = "start"
    /\ mapper \in Mappers
    /\ \E n \in 1..MaxRows :
        \E patterns \in [1..Len(mapper.feature) -> NullPatterns] :
            df = SourceTable(mapper, n, patterns, "valid")
    /\ input = [df |-> df, mapper |-> mapper, admin |-> "admin2"]
    /\ renamed_col_dict = Idle.renamed_col_dict
    /\ qualified_col_dict = Idle.qualified_col_dict
    /\ features = Idle.features /\ col_order = Idle.col_order
    /\ protected_cols = Idle.protected_cols /\ df_out = Idle.df_out
    /\ df_geocode = Idle.df_geocode /\ sjoin_log = Idle.sjoin_log

-----------------------------------------------------------------------------
(* normalizer, step by step *)

Locals ==
    [df |-> df, features |-> features,
     qualified_col_dict |-> qualified_col_dict,
     renamed_col_dict |-> renamed_col_dict,
     primary_date_group_mapper |-> <<>>, other_date_group_mapper |-> <<>>,
     raised |-> FALSE]

\* the locals go back to the state; an exception ends the call
Continue(st, next) ==
    /\ pc' = IF st.raised THEN "raised" ELSE next
    /\ df' = st.df
    /\ features' = st.features
    /\ qualified_col_dict' = st.qualified_col_dict
    /\ renamed_col_dict' = st.renamed_col_dict

\* lines 79-151: collisions are resolved, the table is cut down to the
\* annotated columns
ResolveCollisions ==
    /\ pc = "start"
    /\ LET r == handle_colname_collisions(df, mapper, COL_ORDER)
           keys == mapper_keys(r.mapper)
       IN  /\ mapper' = r.mapper
           /\ renamed_col_dict' = r.renamed_col_dict
           /\ df' = IF CanSelect(r.df, keys) THEN SelectCols(r.df, keys)
                    ELSE r.df
           /\ pc' = IF CanSelect(r.df, keys) THEN "dates" ELSE "raised"
    /\ col_order' = COL_ORDER
    /\ UNCHANGED <<qualified_col_dict, features, protected_cols, df_out,
                   df_geocode, sjoin_log, input>>

\* lines 153-323
ClassifyDates ==
    /\ pc = "dates"
    /\ Continue(DateGroupLoop(PrimaryDateGroup(
                    DateLoop(Locals, mapper.date, mapper))), "geos")
    /\ UNCHANGED <<mapper, col_order, protected_cols, df_out, df_geocode,
                   sjoin_log, input>>

\* lines 325-415
ClassifyGeos ==
    /\ pc = "geos"
    /\ Continue(GeoLoop(Locals, mapper.geo, mapper), "features")
    /\ UNCHANGED <<mapper, col_order, protected_cols, df_out, df_geocode,
                   sjoin_log, input>>

\* lines 417-490
ClassifyFeatures ==
    /\ pc = "features"
    /\ Continue(FeatureLoop(Locals, mapper.feature), "resolve")
    /\ UNCHANGED <<mapper, col_order, protected_cols, df_out, df_geocode,
                   sjoin_log, input>>

\* lines 504-508
resolve_to_gadm_geotypes(m) ==
    LET ks == SelectSeq(m.geo, LAMBDA k : k.resolve_to_gadm)
    IN  [i \in 1..Len(ks) |-> ks[i].type]

\* lines 492-516: point geocoding when lat and lng are present, else name
\* reconciliation when the country is primary, or present with no primary
\* geo at all, and some annotation sets resolve_to_gadm
ResolveGeography ==
    /\ pc = "resolve"
    /\ IF HasCol(df, "lat") /\ HasCol(df, "lng")
       THEN LET r == geocode(input.admin, df, "lng", "lat", df_geocode)
            IN  /\ df' = r.df
                /\ df_geocode' = r.df_geocode
                /\ sjoin_log' =
                    [last |-> r.sjoined,
                     count |-> [p \in DOMAIN sjoin_log.count |->
                        sjoin_log.count[p]
                            + Cardinality({i \in 1..Len(r.sjoined) :
                                                r.sjoined[i] = p})]]
                /\ input' =
                    IF "df_geocode" \in DOMAIN input
                    THEN [input EXCEPT !.df_geocode =
                            passed_cache(@, r.df_geocode)]
                    ELSE input
       ELSE /\ df' =
                IF /\ \/ IsIn(GEO_TYPE_COUNTRY, primary_geo_types(mapper))
                      \/ HasCol(df, "country") /\ primary_geo_types(mapper) = <<>>
                   /\ resolve_to_gadm_geotypes(mapper) # <<>>
                THEN match_geo_names(df, resolve_to_gadm_geotypes(mapper))
                ELSE df
            /\ UNCHANGED <<df_geocode, sjoin_log, input>>
    /\ pc' = "pivot"
    /\ UNCHANGED <<mapper, renamed_col_dict, qualified_col_dict, features,
                   col_order, protected_cols, df_out>>

\* lines 518-583
Pivot ==
    /\ pc = "pivot"
    /\ LET w == WidenProtected([p |-> ProtectedIn(df), co |-> col_order],
                               qualified_col_dict)
           acc == PivotLoop([out |-> EmptyTable, co |-> w.co,
                             raised |-> FALSE],
                            features, df, w.p, qualified_col_dict)
       IN  /\ protected_cols' = w.p
           /\ IF features = <<>>
              THEN /\ col_order' = w.co
                   /\ df_out' = IF CanSelect(df, w.p) THEN SelectCols(df, w.p)
                                ELSE df_out
                   /\ pc' = IF CanSelect(df, w.p) THEN "assemble"
                            ELSE "raised"
              ELSE /\ col_order' = acc.co
                   /\ df_out' = acc.out
                   /\ pc' = IF acc.raised THEN "raised" ELSE "assemble"
    /\ UNCHANGED <<mapper, df, renamed_col_dict, qualified_col_dict, features,
                   df_geocode, sjoin_log, input>>

\* lines 585-597: missing columns are added, rows with a null value are
\* dropped, the ledger is audited, the columns are put in order
Assemble ==
    /\ pc = "assemble"
    /\ df_out' = SelectCols(dropna_value(FillMissing(df_out, col_order)),
                            col_order)
    /\ renamed_col_dict' = audit_renamed_col_dict(renamed_col_dict)
    /\ pc' = "done"
    /\ UNCHANGED <<mapper, df, qualified_col_dict, features, col_order,
                   protected_cols, df_geocode, sjoin_log, input>>

Next ==
    \/ ResolveCollisions
    \/ ClassifyDates
    \/ ClassifyGeos
    \/ ClassifyFeatures
    \/ ResolveGeography
    \/ Pivot
    \/ Assemble

Spec == Init /\ [][Next]_vars

-----------------------------------------------------------------------------
(* audit_renamed_col_dict on its own: every ledger over LedgerNames whose  *)
(* entries list up to MaxValLen source columns                             *)

LedgerNames == {"a", "b", "ab"}

LedgerSources == {"a", "b"}

LedgerValues ==
    UNION {[1..n -> LedgerSources] : n \in 1..MaxValLen}

Ledgers ==
    UNION {[ks -> LedgerValues] : ks \in SUBSET LedgerNames}

InitAudit ==
    /\ pc = "audit"
    /\ input \in Ledgers
    /\ renamed_col_dict = input
    /\ mapper = Idle.mapper /\ df = Idle.df
    /\ qualified_col_dict = Idle.qualified_col_dict
    /\ features = Idle.features /\ col_order = Idle.col_order
    /\ protected_cols = Idle.protected_cols /\ df_out = Idle.df_out
    /\ df_geocode = Idle.df_geocode /\ sjoin_log = Idle.sjoin_log

Audit ==
    /\ pc = "audit"
    /\ renamed_col_dict' = audit_renamed_col_dict(renamed_col_dict)
    /\ pc' = "audited"
    /\ UNCHANGED <<mapper, df, qualified_col_dict, features, col_order,
                   protected_cols, df_out, df_geocode, sjoin_log, input>>

NextAudit == Audit

SpecAudit == InitAudit /\ [][NextAudit]_vars

-----------------------------------------------------------------------------
(* geocode on its own: a sequence of calls, each given the cache the       *)
(* previous one returned                                                   *)

\* (lng, lat) pairs: the first lies in no polygon, the others in one each
Points == {<<"0", "0">>, <<"1", "0">>, <<"1", "1">>}

\* the tables with columns lng and lat and 1..MaxRows rows
GeoTables ==
    UNION {{[idx |-> RangeIndex(n),
             cols |-> <<[name |-> "lng", data |-> [r \in 1..n |-> ps[r][1]]],
                        [name |-> "lat", data |-> [r \in 1..n |-> ps[r][2]]]>>]
            : ps \in [1..n -> Points]} : n \in 1..MaxRows}

InitGeocode ==
    /\ pc = "geocode"
    /\ df_geocode = <<>>
    /\ sjoin_log = [last |-> <<>>, count |-> [p \in Points |-> 0]]
    /\ input = [df |-> EmptyTable, df_geocode |-> <<>>]
    /\ mapper = Idle.mapper /\ df = Idle.df
    /\ renamed_col_dict = Idle.renamed_col_dict
    /\ qualified_col_dict = Idle.qualified_col_dict
    /\ features = Idle.features /\ col_order = Idle.col_order
    /\ protected_cols = Idle.protected_cols /\ df_out = Idle.df_out

GeocodeCall ==
    /\ pc = "geocode"
    /\ Len(df_geocode) < MaxCache
    /\ \E t \in GeoTables :
        LET r == geocode("admin2", t, "lng", "lat", df_geocode)
        IN  /\ input' = [df |-> t, df_geocode |-> df_geocode]
            /\ df' = r.df
            /\ df_geocode' = r.df_geocode
            /\ sjoin_log' =
                [last |-> r.sjoined,
                 count |-> [p \in Points |->
                    sjoin_log.count[p]
                        + Cardinality({i \in 1..Len(r.sjoined) : r.sjoined[i] = p})]]
    /\ UNCHANGED <<pc, mapper, renamed_col_dict, qualified_col_dict, features,
                   col_order, protected_cols, df_out>>

NextGeocode == GeocodeCall

SpecGeocode == InitGeocode /\ [][NextGeocode]_vars

-----------------------------------------------------------------------------
(* Dates: one call of format_time on a string, a pattern and a validate    *)
(* flag, or one call of normalizer on a schema with date annotations       *)

\* the date annotations of the schemas normalizer is run on: a primary
\* day/month/year group, a lone secondary date, a secondary date beside a
\* primary one, and the same with the secondary date qualifying rain
DateContexts ==
    {<<Date("day", "day", TRUE), Date("month", "month", TRUE),
       Date("year", "year", TRUE)>>,
     <<Date("d", "date", FALSE)>>,
     <<Date("d", "date", TRUE), Date("seen", "date", FALSE)>>,
     <<Date("d", "date", TRUE),
       [Date("seen", "date", FALSE) EXCEPT !.qualifies = <<"rain">>]>>}

DateMappers ==
    {[geo |-> <<>>, date |-> c, feature |-> fs] :
        c \in DateContexts,
        fs \in {<<>>, <<Feat("rain", <<>>, <<>>)>>,
                <<Feat("rain", <<>>, <<>>), Feat("flag", <<"rain">>, <<>>)>>}}

\* either one call of format_time, or one call of normalizer on a schema
\* of DateMappers
InitDates ==
    /\ \/ /\ pc = "format_time"
          /\ \E t \in DateStrings \cup {m[1] : m \in Midnight} :
                \E f \in TimeFormats : \E v \in BOOLEAN :
                    input = [t |-> t, time_format |-> f, validate |-> v,
                             result |-> NULL]
          /\ mapper = Idle.mapper /\ df = Idle.df
       \/ /\ pc = "start"
          /\ mapper \in DateMappers
          /\ \E n \in 1..MaxRows :
                \E patterns \in [1..Len(mapper.feature) -> NullPatterns] :
                    \E dates \in DatePatterns :
                        df = SourceTable(mapper, n, patterns, dates)
          /\ input = [df |-> df, mapper |-> mapper, admin |-> "admin2"]
    /\ renamed_col_dict = Idle.renamed_col_dict
    /\ qualified_col_dict = Idle.qualified_col_dict
    /\ features = Idle.features /\ col_order = Idle.col_order
    /\ protected_cols = Idle.protected_cols /\ df_out = Idle.df_out
    /\ df_geocode = Idle.df_geocode /\ sjoin_log = Idle.sjoin_log

FormatTime ==
    /\ pc = "format_time"
    /\ LET r == format_time(input.t, input.time_format, input.validate)
       IN  /\ pc' = IF r = RAISE THEN "raised" ELSE "returned"
           /\ input' = [input EXCEPT !.result = r]
    /\ UNCHANGED <<mapper, df, renamed_col_dict, qualified_col_dict, features,
                   col_order, protected_cols, df_out, df_geocode, sjoin_log>>

NextDates ==
    \/ FormatTime
    \/ ResolveCollisions
    \/ ClassifyDates
    \/ ClassifyGeos
    \/ ClassifyFeatures
    \/ ResolveGeography
    \/ Pivot
    \/ Assemble

SpecDates == InitDates /\ [][NextDates]_vars

-----------------------------------------------------------------------------
(* Geo classification: normalizer on a schema with one primary geo         *)
(* annotation, of every geo_type and under several source column names     *)

GeoTypes ==
    {"latitude", "longitude", "coordinates", GEO_TYPE_COUNTRY,
     GEO_TYPE_ADMIN1, GEO_TYPE_ADMIN2, GEO_TYPE_ADMIN3, "iso2", "iso3"}

\* source column names: a plain one and three reserved ones
GeoNames == {"place", "country", "admin2", "admin3"}

\* the cells of a column of ISO codes; a blank cell is null
IsoCodes == {"US", "USA", "XX", NULL}

GeoMappers ==
    {[geo |-> <<Geo(n, t, TRUE)>>, date |-> <<>>,
      feature |-> <<Feat("rain", <<>>, <<>>)>>] :
        n \in GeoNames, t \in GeoTypes}

\* the source table: the geo column, whose cells are codes, and rain
GeoSource(m, codes) ==
    [idx |-> RangeIndex(Len(codes)),
     cols |-> <<[name |-> m.geo[1].name, data |-> codes],
                [name |-> "rain",
                 data |-> [r \in 1..Len(codes) |-> ToString(r)]]>>]

InitGeoClass ==
    /\ pc = "start"
    /\ mapper \in GeoMappers
    /\ \E n \in 1..MaxRows :
        \E codes \in [1..n -> IF mapper.geo[1].type \in {"iso2", "iso3"}
                              THEN IsoCodes ELSE {"1,0"}] :
            df = GeoSource(mapper, codes)
    /\ input = [df |-> df, mapper |-> mapper, admin |-> "admin2"]
    /\ renamed_col_dict = Idle.renamed_col_dict
    /\ qualified_col_dict = Idle.qualified_col_dict
    /\ features = Idle.features /\ col_order = Idle.col_order
    /\ protected_cols = Idle.protected_cols /\ df_out = Idle.df_out
    /\ df_geocode = Idle.df_geocode /\ sjoin_log = Idle.sjoin_log

SpecGeoClass == InitGeoClass /\ [][Next]_vars

-----------------------------------------------------------------------------
(* causemosify_multi (cli.py): the files of a batch are normalized one     *)
(* after the other by chunk_normalize, then reassembled with a common      *)
(* column list.  A file of the model has fewer than CHUNK_SIZE rows, so    *)
(* chunks = 1 + (rows // CHUNK_SIZE) = 1.                                  *)

MaxFiles == 2     \* files of one batch

\* the schemas of the files of a batch
BatchMappers ==
    [plain |-> [geo |-> <<Geo("lat", "latitude", TRUE),
                          Geo("lng", "longitude", TRUE)>>,
                date |-> <<>>,
                feature |-> <<Feat("rain", <<>>, <<>>)>>],
     flagged |-> [geo |-> <<Geo("lat", "latitude", TRUE),
                            Geo("lng", "longitude", TRUE)>>,
                  date |-> <<>>,
                  feature |-> <<Feat("rain", <<>>, <<>>),
                                Feat("flag", <<"rain">>, <<>>)>>],
     dated |-> [geo |-> <<>>,
                date |-> <<Date("d", "date", TRUE)>>,
                feature |-> <<Feat("rain", <<>>, <<>>),
                              Feat("level", <<"rain">>, <<>>),
                              Feat("unit", <<"rain">>, <<>>)>>]]

\* the cell of an input file's column for the row at point p
BatchCell(d, p) ==
    IF d.type = "longitude" THEN p[1]
    ELSE IF d.type = "latitude" THEN p[2]
    ELSE IF d.kind = "date" THEN "06/15/2020"
    ELSE "5"

\* pd.read_csv(input_file): one row per point, one column per annotation
BatchTable(m, ps) ==
    [idx |-> RangeIndex(Len(ps)),
     cols |-> [i \in 1..Len(AllAnnotations(m)) |->
                [name |-> AllAnnotations(m)[i].name,
                 data |-> [r \in 1..Len(ps) |->
                            BatchCell(AllAnnotations(m)[i], ps[r])]]]]

\* the input files a batch is made of: schema and the points of the rows
BatchFiles ==
    {[mapper |-> BatchMappers.plain, ps |-> <<<<"1", "0">>, <<"0", "0">>>>],
     [mapper |-> BatchMappers.plain, ps |-> <<<<"1", "0">>, <<"1", "1">>>>],
     [mapper |-> BatchMappers.flagged, ps |-> <<<<"1", "1">>>>],
     [mapper |-> BatchMappers.dated, ps |-> <<<<"0", "0">>>>]}

RECURSIVE ListsOf(_)
\* list(s) of a Python set s: the elements in some order
ListsOf(S) ==
    IF S = {} THEN {<<>>}
    ELSE UNION {{<<x>> \o l : l \in ListsOf(S \ {x})} : x \in S}

\* causemosify_multi, lines 266-289.  input holds the locals of
\* causemosify_multi: its df_geocode, its output_columns, the processed
\* temporary file of every input file and the reassembled tables
InitBatch ==
    /\ pc = "multi"
    /\ input = [admin |-> "admin2", df |-> EmptyTable, mapper |-> Idle.mapper,
                df_geocode |-> <<>>, output_columns |-> <<>>,
                processed |-> <<>>, final |-> <<>>]
    /\ sjoin_log = [last |-> <<>>, count |-> [p \in Points |-> 0]]
    /\ mapper = Idle.mapper /\ df = Idle.df
    /\ renamed_col_dict = Idle.renamed_col_dict
    /\ qualified_col_dict = Idle.qualified_col_dict
    /\ features = Idle.features /\ col_order = Idle.col_order
    /\ protected_cols = Idle.protected_cols /\ df_out = Idle.df_out
    /\ df_geocode = Idle.df_geocode

\* causemosify_multi lines 291-326 and chunk_normalize lines 56-113: the
\* next input file is read and normalizer is called on its one chunk, with
\* the df_geocode of causemosify_multi as argument
ChunkNormalize ==
    /\ pc = "multi"
    /\ Len(input.processed) < MaxFiles
    /\ \E f \in BatchFiles :
        /\ mapper' = f.mapper
        /\ df' = BatchTable(f.mapper, f.ps)
        /\ input' = [input EXCEPT !.mapper = f.mapper,
                                  !.df = BatchTable(f.mapper, f.ps)]
    /\ df_geocode' = input.df_geocode
    /\ pc' = "start"
    /\ renamed_col_dict' = Idle.renamed_col_dict
    /\ qualified_col_dict' = Idle.qualified_col_dict
    /\ features' = Idle.features /\ col_order' = Idle.col_order
    /\ protected_cols' = Idle.protected_cols /\ df_out' = Idle.df_out
    /\ UNCHANGED sjoin_log

\* chunk_normalize lines 113-148 and causemosify_multi lines 328-335:
\* normalizer has returned; its table is written to the processed file,
\* chunk_normalize returns the rename ledger alone, and the columns of the
\* processed file are added to output_columns
ChunkDone ==
    /\ pc = "done"
    /\ IF Len(input.output_columns) = 0
       THEN input' = [input EXCEPT !.processed = Append(@, df_out),
                                   !.output_columns = ColNames(df_out)]
       ELSE \E added \in ListsOf(Range(ColNames(df_out))
                                    \ Range(input.output_columns)) :
                input' = [input EXCEPT !.processed = Append(@, df_out),
                                       !.output_columns = @ \o added]
    /\ pc' = "multi"
    /\ UNCHANGED <<mapper, df, renamed_col_dict, qualified_col_dict, features,
                   col_order, protected_cols, df_out, df_geocode, sjoin_log>>

\* mutant: the columns a table lacks are not added
ReorderPresentOnly(t, output_columns) == SelectCols(t, output_columns)

\* lines 354-358: the columns of output_columns a table lacks are added as
\* nulls and the table is put in the order of output_columns
Reorder(t, output_columns) ==
    SelectCols(FillMissing(t, output_columns), output_columns)

\* causemosify_multi lines 346-359, for every input file
Reassemble ==
    /\ pc = "multi"
    /\ input.processed # <<>>
    /\ input' = [input EXCEPT !.final =
                    [i \in 1..Len(input.processed) |->
                        Reorder(input.processed[i], input.output_columns)]]
    /\ pc' = "written"
    /\ UNCHANGED <<mapper, df, renamed_col_dict, qualified_col_dict, features,
                   col_order, protected_cols, df_out, df_geocode, sjoin_log>>

NextBatch ==
    \/ ChunkNormalize
    \/ ResolveCollisions
    \/ ClassifyDates
    \/ ClassifyGeos
    \/ ClassifyFeatures
    \/ ResolveGeography
    \/ Pivot
    \/ Assemble
    \/ ChunkDone
    \/ Reassemble

SpecBatch == InitBatch /\ [][NextBatch]_vars

-----------------------------------------------------------------------------
(* Qualifiers: normalizer on schemas whose geo, date and feature           *)
(* annotations, primary or not, may qualify the feature rain               *)

QualifiesRain == {<<>>, <<"rain">>}

\* what the feature flag qualifies: nothing, rain, or the source column of
\* the geo or of the date annotation
FlagQualifies == QualifiesRain \cup {<<"place">>, <<"d">>}

QualMappers ==
    {[geo |-> <<[Geo("place", GEO_TYPE_COUNTRY, gp) EXCEPT !.qualifies = gq],
                [Geo("zone", zt, FALSE) EXCEPT !.qualifies = zq]>>,
      date |-> <<[Date("d", "date", dp) EXCEPT !.qualifies = dq]>>,
      feature |-> <<Feat("rain", <<>>, <<>>), Feat("flag", fq, <<>>)>>] :
        gp \in BOOLEAN, dp \in BOOLEAN,
        zt \in {GEO_TYPE_COUNTRY, GEO_TYPE_ADMIN1},
        gq \in QualifiesRain, zq \in QualifiesRain, dq \in QualifiesRain,
        fq \in FlagQualifies}

InitQualify ==
    /\ pc = "start"
    /\ mapper \in QualMappers
    /\ df = SourceTable(mapper, 1, <<"none", "none">>, "valid")
    /\ input = [df |-> df, mapper |-> mapper, admin |-> "admin2"]
    /\ renamed_col_dict = Idle.renamed_col_dict
    /\ qualified_col_dict = Idle.qualified_col_dict
    /\ features = Idle.features /\ col_order = Idle.col_order
    /\ protected_cols = Idle.protected_cols /\ df_out = Idle.df_out
    /\ df_geocode = Idle.df_geocode /\ sjoin_log = Idle.sjoin_log

SpecQualify == InitQualify /\ [][Next]_vars

-----------------------------------------------------------------------------
(* Name reconciliation: normalizer on a schema with a primary country and  *)
(* a primary admin1 column, each flagged resolve_to_gadm or not            *)

CountryCells == {"Ethiopia", "Etiopia", "Kenya", "Somalia"}

Admin1Cells == {"Oromia", "Oromiya", "Nakuru", "Qq"}

MatchMappers ==
    {[geo |-> <<[Geo("nation", GEO_TYPE_COUNTRY, TRUE)
                    EXCEPT !.resolve_to_gadm = rc],
                [Geo("state", GEO_TYPE_ADMIN1, TRUE)
                    EXCEPT !.resolve_to_gadm = ra]>>,
      date |-> <<>>,
      feature |-> <<Feat("rain", <<>>, <<>>)>>] : rc \in BOOLEAN, ra \in BOOLEAN}

InitMatch ==
    /\ pc = "start"
    /\ mapper \in MatchMappers
    /\ \E n \in 1..MaxRows :
        \E cs \in [1..n -> CountryCells] : \E as \in [1..n -> Admin1Cells] :
            df = [idx |-> RangeIndex(n),
                  cols |-> <<[name |-> "nation", data |-> cs],
                             [name |-> "state", data |-> as],
                             [name |-> "rain",
                              data |-> [r \in 1..n |-> ToString(r)]]>>]
    /\ input = [df |-> df, mapper |-> mapper, admin |-> "admin2"]
    /\ renamed_col_dict = Idle.renamed_col_dict
    /\ qualified_col_dict = Idle.qualified_col_dict
    /\ features = Idle.features /\ col_order = Idle.col_order
    /\ protected_cols = Idle.protected_cols /\ df_out = Idle.df_out
    /\ df_geocode = Idle.df_geocode /\ sjoin_log = Idle.sjoin_log

SpecMatch == InitMatch /\ [][Next]_vars

-----------------------------------------------------------------------------
(* normalizer as a library: a caller keeps a geocode cache, passes it to   *)
(* each call and takes the returned one; a call that raises returns none   *)

MaxCalls == 3     \* calls of normalizer by one caller

\* lat/lng with a lone secondary date: normalizer raises after geocoding
BrokenMapper ==
    [geo |-> <<Geo("lat", "latitude", TRUE), Geo("lng", "longitude", TRUE)>>,
     date |-> <<Date("d", "date", FALSE)>>,
     feature |-> <<Feat("rain", <<>>, <<>>)>>]

CallFiles ==
    {[mapper |-> BatchMappers.plain, ps |-> <<<<"1", "0">>, <<"0", "0">>>>],
     [mapper |-> BatchMappers.plain, ps |-> <<<<"1", "1">>>>],
     [mapper |-> BrokenMapper, ps |-> <<<<"1", "0">>>>],
     [mapper |-> BrokenMapper, ps |-> <<<<"1", "1">>, <<"0", "0">>>>]}

\* input holds the caller's side: the frame it passes as df_geocode, the
\* rows that frame had when the call was made, and the calls made
InitCalls ==
    /\ pc = "caller"
    /\ input = [admin |-> "admin2", df |-> EmptyTable, mapper |-> Idle.mapper,
                df_geocode |-> <<>>, before |-> <<>>, calls |-> 0]
    /\ sjoin_log = [last |-> <<>>, count |-> [p \in Points |-> 0]]
    /\ mapper = Idle.mapper /\ df = Idle.df
    /\ renamed_col_dict = Idle.renamed_col_dict
    /\ qualified_col_dict = Idle.qualified_col_dict
    /\ features = Idle.features /\ col_order = Idle.col_order
    /\ protected_cols = Idle.protected_cols /\ df_out = Idle.df_out
    /\ df_geocode = Idle.df_geocode

\* normalizer(df, mapper, admin, gadm, df_geocode), lines 28-35
Call ==
    /\ pc = "caller"
    /\ input.calls < MaxCalls
    /\ \E f \in CallFiles :
        /\ mapper' = f.mapper
        /\ df' = BatchTable(f.mapper, f.ps)
        /\ input' = [input EXCEPT !.mapper = f.mapper,
                                  !.df = BatchTable(f.mapper, f.ps),
                                  !.before = input.df_geocode,
                                  !.calls = @ + 1]
    /\ df_geocode' = input.df_geocode
    /\ pc' = "start"
    /\ renamed_col_dict' = Idle.renamed_col_dict
    /\ qualified_col_dict' = Idle.qualified_col_dict
    /\ features' = Idle.features /\ col_order' = Idle.col_order
    /\ protected_cols' = Idle.protected_cols /\ df_out' = Idle.df_out
    /\ UNCHANGED sjoin_log

\* line 597: the caller takes the returned df_geocode as its cache
Return ==
    /\ pc = "done"
    /\ input' = [input EXCEPT !.df_geocode = df_geocode]
    /\ pc' = "caller"
    /\ UNCHANGED <<mapper, df, renamed_col_dict, qualified_col_dict, features,
                   col_order, protected_cols, df_out, df_geocode, sjoin_log>>

\* the call raised: nothing is returned and the caller keeps the frame it
\* passed
Catch ==
    /\ pc = "raised"
    /\ pc' = "caller"
    /\ UNCHANGED <<mapper, df, renamed_col_dict, qualified_col_dict, features,
                   col_order, protected_cols, df_out, df_geocode, sjoin_log,
                   input>>

NextCalls ==
    \/ Call
    \/ ResolveCollisions
    \/ ClassifyDates
    \/ ClassifyGeos
    \/ ClassifyFeatures
    \/ ResolveGeography
    \/ Pivot
    \/ Assemble
    \/ Return
    \/ Catch

SpecCalls == InitCalls /\ [][NextCalls]_vars

-----------------------------------------------------------------------------
(* chunk_normalize: one file is cut into chunks and normalizer is called   *)
(* on each chunk with the one schema object of the file                    *)

MaxChunks == 2    \* chunks of one file

\* cli.py lines 94-105: every chunk is a slice of the file's rows, so it
\* carries the column names of the file
InitChunks ==
    /\ pc = "chunks"
    /\ mapper \in Mappers
    /\ input = [admin |-> "admin2", mapper |-> mapper, df |-> EmptyTable,
                chunk |-> 0, first |-> <<>>]
    /\ df = Idle.df
    /\ renamed_col_dict = Idle.renamed_col_dict
    /\ qualified_col_dict = Idle.qualified_col_dict
    /\ features = Idle.features /\ col_order = Idle.col_order
    /\ protected_cols = Idle.protected_cols /\ df_out = Idle.df_out
    /\ df_geocode = Idle.df_geocode /\ sjoin_log = Idle.sjoin_log

\* cli.py lines 107-113: the next chunk is read and passed to normalizer
\* with mapper, the object the earlier calls were given
NextChunk ==
    /\ pc = "chunks"
    /\ input.chunk < MaxChunks
    /\ \E n \in 1..MaxRows :
        \E patterns \in [1..Len(input.mapper.feature) -> {"none"}] :
            /\ df' = SourceTable(input.mapper, n, patterns, "valid")
            /\ input' = [input EXCEPT
                            !.df = SourceTable(input.mapper, n, patterns,
                                               "valid"),
                            !.chunk = @ + 1]
    /\ pc' = "start"
    /\ renamed_col_dict' = Idle.renamed_col_dict
    /\ qualified_col_dict' = Idle.qualified_col_dict
    /\ features' = Idle.features /\ col_order' = Idle.col_order
    /\ protected_cols' = Idle.protected_cols /\ df_out' = Idle.df_out
    /\ UNCHANGED <<mapper, df_geocode, sjoin_log>>

\* cli.py lines 113-144: the call returned; first keeps what the first
\* call of the file returned
ChunkReturned ==
    /\ pc = "done"
    /\ input.chunk < MaxChunks
    /\ input' = [input EXCEPT
                    !.first = IF @ = <<>>
                              THEN <<[columns |-> ColNames(df_out),
                                      result_dict |-> renamed_col_dict]>>
                              ELSE @]
    /\ pc' = "chunks"
    /\ UNCHANGED <<mapper, df, renamed_col_dict, qualified_col_dict, features,
                   col_order, protected_cols, df_out, df_geocode, sjoin_log>>

NextChunks ==
    \/ NextChunk
    \/ ResolveCollisions
    \/ ClassifyDates
    \/ ClassifyGeos
    \/ ClassifyFeatures
    \/ ResolveGeography
    \/ Pivot
    \/ Assemble
    \/ ChunkReturned

SpecChunks == InitChunks /\ [][NextChunks]_vars

-----------------------------------------------------------------------------
(* Secondary date groups: normalizer on schemas whose non-primary day,     *)
(* month and year annotations name each other in associated_columns, in    *)
(* every order of the annotations and of the entries                       *)

\* a date annotation before its associated_columns are put in an order
Proto(n, t, assoc, q) == [name |-> n, type |-> t, assoc |-> assoc, q |-> q]

\* day, month and year naming each other; each qualifies q
FullGroup(q) ==
    {Proto("day", "day", {<<"month", "month">>, <<"year", "year">>}, q),
     Proto("month", "month", {<<"day", "day">>, <<"year", "year">>}, q),
     Proto("year", "year", {<<"day", "day">>, <<"month", "month">>}, q)}

\* a month and a year naming each other
PairGroup ==
    {Proto("m2", "month", {<<"year", "y2">>}, <<>>),
     Proto("y2", "year", {<<"month", "m2">>}, <<>>)}

\* day and year name the month column, whose annotation names nobody
IncompleteGroup ==
    {Proto("day", "day", {<<"month", "month">>, <<"year", "year">>}, <<>>),
     Proto("year", "year", {<<"day", "day">>, <<"month", "month">>}, <<>>),
     Proto("month", "month", {}, <<>>)}

\* as IncompleteGroup, and the month column has no annotation at all
DanglingGroup == {p \in IncompleteGroup : p.name # "month"}

GroupProtos ==
    {FullGroup(<<>>), FullGroup(<<"rain">>), PairGroup,
     FullGroup(<<>>) \cup PairGroup, IncompleteGroup, DanglingGroup}

RECURSIVE OrderedDates(_)
\* the annotations of a list of protos, each with its associated_columns
\* in some order
OrderedDates(l) ==
    IF l = <<>> THEN {<<>>}
    ELSE {<<Ann(Head(l).name, "date", Head(l).type, FALSE, Head(l).q, a)>> \o s :
            a \in ListsOf(Head(l).assoc), s \in OrderedDates(Tail(l))}

\* with or without a primary date d ahead of the groups
GroupMappers ==
    {[geo |-> <<>>, date |-> first \o ds,
      feature |-> <<Feat("rain", <<>>, <<>>)>>] :
        first \in {<<>>, <<Date("d", "date", TRUE)>>},
        ds \in UNION {UNION {OrderedDates(l) : l \in ListsOf(P)} :
                        P \in GroupProtos}}

InitGroups ==
    /\ pc = "start"
    /\ mapper \in GroupMappers
    /\ df = SourceTable(mapper, 1, <<"none">>, "valid")
    /\ input = [df |-> df, mapper |-> mapper, admin |-> "admin2"]
    /\ renamed_col_dict = Idle.renamed_col_dict
    /\ qualified_col_dict = Idle.qualified_col_dict
    /\ features = Idle.features /\ col_order = Idle.col_order
    /\ protected_cols = Idle.protected_cols /\ df_out = Idle.df_out
    /\ df_geocode = Idle.df_geocode /\ sjoin_log = Idle.sjoin_log

SpecGroups == InitGroups /\ [][Next]_vars

-----------------------------------------------------------------------------
(* handle_colname_collisions on its own, applied to a schema and then to   *)
(* its own result.  Every column of CollideNames is left out or annotated  *)
(* as a geo, a date or a feature, primary or not, qualifying another       *)
(* column or not, associated with another column or not.                   *)

CollideNames == <<"country", "timestamp", "rain">>

QualifiesChoices(n) ==
    {<<>>} \cup {<<m>> : m \in Range(CollideNames) \ {n}}

AssocChoices(n) ==
    {<<>>} \cup {<< <<"month", m>> >> : m \in {"timestamp"} \ {n}}

Unannotated(n) == Ann(n, "none", "", FALSE, <<>>, <<>>)

RolesOf(n) ==
    {Unannotated(n)}
    \cup {Ann(n, "geo", GEO_TYPE_COUNTRY, p, q, <<>>) :
            p \in BOOLEAN, q \in QualifiesChoices(n)}
    \cup {Ann(n, "date", "day", p, q, a) :
            p \in BOOLEAN, q \in QualifiesChoices(n), a \in AssocChoices(n)}
    \cup {Ann(n, "feature", "float", FALSE, q, <<>>) :
            q \in QualifiesChoices(n)}

OfKind(anns, k) == SelectSeq(anns, LAMBDA d : d.kind = k)

MapperOf(anns) ==
    [geo |-> OfKind(anns, "geo"), date |-> OfKind(anns, "date"),
     feature |-> OfKind(anns, "feature")]

CollideMappers ==
    {MapperOf(<<a, b, c>>) :
        a \in RolesOf(CollideNames[1]), b \in RolesOf(CollideNames[2]),
        c \in RolesOf(CollideNames[3])}

InitCollide ==
    /\ pc = "collide"
    /\ mapper \in CollideMappers
    /\ df = TableOf(CollideNames, 1)
    /\ input = [df |-> df, mapper |-> mapper, once |-> <<>>]
    /\ renamed_col_dict = Idle.renamed_col_dict
    /\ qualified_col_dict = Idle.qualified_col_dict
    /\ features = Idle.features /\ col_order = Idle.col_order
    /\ protected_cols = Idle.protected_cols /\ df_out = Idle.df_out
    /\ df_geocode = Idle.df_geocode /\ sjoin_log = Idle.sjoin_log

CollideOnce ==
    /\ pc = "collide"
    /\ LET r == handle_colname_collisions(df, mapper, COL_ORDER)
       IN  /\ df' = r.df
           /\ mapper' = r.mapper
           /\ renamed_col_dict' = r.renamed_col_dict
           /\ input' = [input EXCEPT !.once = r]
    /\ pc' = "collided"
    /\ UNCHANGED <<qualified_col_dict, features, col_order, protected_cols,
                   df_out, df_geocode, sjoin_log>>

CollideAgain ==
    /\ pc = "collided"
    /\ LET r == handle_colname_collisions(df, mapper, COL_ORDER)
       IN  /\ df' = r.df
           /\ mapper' = r.mapper
           /\ renamed_col_dict' = r.renamed_col_dict
    /\ pc' = "collided_twice"
    /\ UNCHANGED <<qualified_col_dict, features, col_order, protected_cols,
                   df_out, df_geocode, sjoin_log, input>>

NextCollide == CollideOnce \/ CollideAgain

SpecCollide == InitCollide /\ [][NextCollide]_vars

-----------------------------------------------------------------------------
(* Properties of normalizer *)

\* the names, after collisions are resolved, of the annotations that
\* qualify another column
QualifierNames ==
    {AllAnnotations(mapper)[i].name :
        i \in {j \in 1..Len(AllAnnotations(mapper)) :
                    AllAnnotations(mapper)[j].qualifies # <<>>}}

\* the rows of the returned table that come from source row r (the index
\* label r - 1) and bear the feature label f
OutputRows(r, f) ==
    {i \in 1..NRows(df_out) :
        df_out.idx[i] = r - 1 /\ ColData(df_out, "feature")[i] = f}

\* C1: when normalizer returns, the columns of the returned table are
\* timestamp, country, admin1, admin2, admin3, lat, lng, feature, value in
\* that order, followed only by qualifier columns; a reserved column the
\* working table has no data for is present and null in every row.
C1_OutputColumns ==
    pc = "done" =>
        LET names == ColNames(df_out)
        IN  /\ Len(names) >= Len(COL_ORDER)
            /\ SubSeq(names, 1, Len(COL_ORDER)) = COL_ORDER
            /\ \A i \in (Len(COL_ORDER) + 1)..Len(names) :
                    names[i] \in QualifierNames
            /\ \A i \in 1..Len(required_cols) :
                    ~HasCol(df, required_cols[i]) =>
                        \A r \in 1..NRows(df_out) :
                            ColData(df_out, required_cols[i])[r] = NULL

\* C2: every row of the returned table has a non-null value, and a source
\* row whose cell in a feature column is null yields no output row for that
\* feature, for every feature column of the schema.
C2_NoNullValue ==
    pc = "done" =>
        /\ \A c \in 1..Len(df_out.cols) :
                df_out.cols[c].name = "value" =>
                    \A r \in 1..NRows(df_out) : df_out.cols[c].data[r] # NULL
        /\ \A i \in 1..Len(input.mapper.feature) :
                LET f == input.mapper.feature[i]
                IN  f.qualifies = <<>> =>
                        \A r \in 1..NRows(input.df) :
                            ColData(input.df, f.name)[r] = NULL
                                => OutputRows(r, f.name) = {}

\* C3: the number of rows normalizer returns is the number of (row, feature)
\* pairs, over the rows of the table and the features of the pivot
\* worklist, whose value is not null; each input row contributes at most one
\* output row per feature.
C3_PivotCardinality ==
    pc = "done" =>
        /\ NRows(df_out) =
                Cardinality({p \in (1..Len(features)) \X (1..NRows(df)) :
                                ColData(df, features[p[1]])[p[2]] # NULL})
        /\ \A i \in 1..Len(features) : \A r \in 1..NRows(df) :
                Cardinality(OutputRows(r, features[i])) <= 1

\* C4: when feature annotation Q has qualifies = [F] and feature F has no
\* qualifies, the returned table holds exactly one row with feature = F for
\* every source row whose F is not null, that row carries the source row's
\* Q value in the column of Q (named Q, or Q with the collision suffix when
\* Q is a reserved name), and no row has feature = Q.
C4_QualifierWidening ==
    pc = "done" =>
        \A i, j \in 1..Len(input.mapper.feature) :
            LET Q == input.mapper.feature[i]
                F == input.mapper.feature[j]
                Qcol == mapper.feature[i].name
            IN  (Q.qualifies = <<F.name>> /\ F.qualifies = <<>>) =>
                    /\ HasCol(df_out, Qcol)
                    /\ \A r \in 1..NRows(input.df) :
                        /\ ColData(input.df, F.name)[r] # NULL =>
                            /\ Cardinality(OutputRows(r, F.name)) = 1
                            /\ \A o \in OutputRows(r, F.name) :
                                ColData(df_out, Qcol)[o]
                                    = ColData(df, Qcol)[r]
                        /\ OutputRows(r, Q.name) = {}
                        /\ OutputRows(r, Qcol) = {}

\* an annotation that does not fill a reserved slot yet is named like a
\* reserved output column
ReservedNamed(m) ==
    \E i \in 1..Len(AllAnnotations(m)) :
        /\ IsIn(AllAnnotations(m)[i].name, COL_ORDER)
        /\ ~AllAnnotations(m)[i].primary

\* C7: for every schema in which an annotated column that fills no reserved
\* slot is named like a reserved output column, normalizer does not raise
\* and the working table never holds two columns of the same name.
C7_CollisionsAutoCorrected ==
    ReservedNamed(input.mapper) => pc # "raised" /\ UniqueCols(df)

-----------------------------------------------------------------------------
(* Properties of handle_colname_collisions *)

\* the annotations the resolver is meant to rename: a non-primary geo or
\* date, or a qualifying feature, named like a reserved output column
MustRename(d) ==
    /\ IsIn(d.name, COL_ORDER)
    /\ \/ d.kind \in {"geo", "date"} /\ ~d.primary
       \/ d.kind = "feature" /\ d.qualifies # <<>>

\* every reference to old in annotation e0 reads new in annotation e1
ReferencesReplaced(e0, e1, old, new) ==
    /\ \A j \in 1..Len(e0.qualifies) :
        e0.qualifies[j] = old => e1.qualifies[j] = new
    /\ \A j \in 1..Len(e0.associated_columns) :
        e0.associated_columns[j][2] = old
            => e1.associated_columns[j][2] = new

\* C5: after handle_colname_collisions, for every non-primary geo or date
\* annotation and every qualifying feature annotation that bears a reserved
\* name, the table column and the annotation bear the suffixed name, every
\* occurrence of the old name in any annotation's qualifies list or
\* associated_columns mapping reads the suffixed name, and the ledger maps
\* the suffixed name to [original name].
C5_CollisionsResolved ==
    pc = "collided" =>
        \A k \in DOMAIN input.mapper : \A i \in 1..Len(input.mapper[k]) :
            LET d == input.mapper[k][i]
                new == d.name \o suffix
            IN  MustRename(d) =>
                    /\ HasCol(df, new) /\ ~HasCol(df, d.name)
                    /\ mapper[k][i].name = new
                    /\ \A k2 \in DOMAIN input.mapper :
                        \A i2 \in 1..Len(input.mapper[k2]) :
                            ReferencesReplaced(input.mapper[k2][i2],
                                               mapper[k2][i2], d.name, new)
                    /\ new \in DOMAIN renamed_col_dict
                    /\ renamed_col_dict[new] = <<d.name>>

\* C6: applying handle_colname_collisions to the table and schema that a
\* previous application returned changes neither and returns an empty
\* ledger; no column or annotation name carries the suffix twice.
C6_Idempotent ==
    pc = "collided_twice" =>
        /\ df = input.once.df
        /\ mapper = input.once.mapper
        /\ renamed_col_dict = EmptyDict
        /\ \A i \in 1..Len(CollideNames) :
            LET twice == CollideNames[i] \o suffix \o suffix
            IN  /\ ~HasCol(df, twice)
                /\ ~IsIn(twice, AnnNames(AllAnnotations(mapper)))

\* a second application after a first one that did rename something
C6_Witness ==
    /\ pc = "collided_twice"
    /\ input.once.renamed_col_dict # EmptyDict
    /\ HasCol(df, "country" \o suffix)

-----------------------------------------------------------------------------
(* Properties of audit_renamed_col_dict *)

\* the ledger holds no pair of entries A -> [B] and B -> [A]
Acyclic(d) == ~ \E A, B \in DOMAIN d : d[A] = <<B>> /\ d[B] = <<A>>

\* C8: the ledger audit_renamed_col_dict returns never holds both an entry
\* A -> [B] and an entry B -> [A].
C8_LedgerAcyclic == pc = "audited" => Acyclic(renamed_col_dict)

\* a ledger with a cyclic pair went in and an entry outside it came out
C8_Witness ==
    /\ pc = "audited"
    /\ \E A, B \in DOMAIN input :
        A # B /\ input[A] = <<B>> /\ input[B] = <<A>>
    /\ renamed_col_dict # EmptyDict

-----------------------------------------------------------------------------
(* Properties of geocode *)

\* the coordinate pairs of the table the last call was given
Asked == Range(Pairs(input.df, "lng", "lat"))

\* the coordinate pairs of the cache the last call was given
CachedBefore == CacheKeys(input.df_geocode)

\* C9: over any sequence of geocode calls that thread the cache, the
\* spatial join is given only pairs of the table that are absent from the
\* cache passed in; no pair is spatially joined twice, whether it resolved
\* or not; a call whose pairs are all cached joins nothing.
C9_CacheEffective ==
    pc = "geocode" =>
        /\ Range(sjoin_log.last) \subseteq Asked \ CachedBefore
        /\ \A p \in Points : sjoin_log.count[p] <= 1
        /\ Asked \subseteq CachedBefore => sjoin_log.last = <<>>

\* a call whose table shares an unresolved cached pair with an earlier one
\* and brings a new pair as well
C9_Witness ==
    /\ pc = "geocode"
    /\ \E p \in Asked \cap CachedBefore : PolygonOf(p)[1] = NULL
    /\ sjoin_log.last # <<>>

\* C10: the cache a geocode call returns starts with the cache it was
\* given, entry for entry, and the entries after that are for pairs of the
\* current table that were absent from it.
C10_CacheAppendOnly ==
    pc = "geocode" =>
        LET old == input.df_geocode
        IN  /\ Len(old) <= Len(df_geocode)
            /\ SubSeq(df_geocode, 1, Len(old)) = old
            /\ \A i \in (Len(old) + 1)..Len(df_geocode) :
                <<df_geocode[i].lng, df_geocode[i].lat>>
                    \in Asked \ CachedBefore

\* a call that was given a cache with entries and added to it
C10_Witness ==
    /\ pc = "geocode"
    /\ input.df_geocode # <<>>
    /\ Len(df_geocode) > Len(input.df_geocode)

\* C11: every row of the table passed to geocode is a row of the returned
\* table, in place, and a row whose point lies in no reference polygon is
\* there with null country and admin fields.
C11_NoRowDropped ==
    pc = "geocode" =>
        /\ NRows(df) = NRows(input.df)
        /\ \A r \in 1..NRows(input.df) :
            /\ Pairs(df, "lng", "lat")[r] = Pairs(input.df, "lng", "lat")[r]
            /\ PolygonOf(Pairs(input.df, "lng", "lat")[r])[1] = NULL =>
                \A i \in 1..Len(GadmCols("admin2")) :
                    ColData(df, GadmCols("admin2")[i])[r] = NULL

\* a call on a table with a point in no polygon and a point in one
C11_Witness ==
    /\ pc = "geocode"
    /\ NRows(df) = NRows(input.df)
    /\ \E p \in Asked : PolygonOf(p)[1] = NULL
    /\ \E p \in Asked : PolygonOf(p)[1] # NULL

\* C12: in a batch run, a coordinate pair that was geocoded while one input
\* file was processed is not spatially joined again while a later input
\* file of the same batch is processed.
C12_BatchCaching ==
    \A p \in DOMAIN sjoin_log.count : sjoin_log.count[p] <= 1

\* C13: all the output files of one batch have the same columns in the
\* same order, and a column that the schema of a file does not produce is
\* in that file's output with a null in every row.
C13_BatchColumns ==
    pc = "written" =>
        /\ \A i, j \in 1..Len(input.final) :
                ColNames(input.final[i]) = ColNames(input.final[j])
        /\ \A i \in 1..Len(input.final) :
            \A k \in 1..Len(input.output_columns) :
                ~HasCol(input.processed[i], input.output_columns[k]) =>
                    /\ HasCol(input.final[i], input.output_columns[k])
                    /\ \A r \in 1..NRows(input.final[i]) :
                        ColData(input.final[i],
                                input.output_columns[k])[r] = NULL

\* a batch of two files, each with a qualifier column the other lacks, both
\* with rows
C13_Witness ==
    /\ pc = "written"
    /\ \E i, j \in 1..Len(input.final) :
        /\ ColNames(input.processed[i]) # ColNames(input.processed[j])
        /\ HasCol(input.processed[i], "flag")
        /\ HasCol(input.processed[j], "level")
        /\ NRows(input.final[i]) > 0 /\ NRows(input.final[j]) > 0

-----------------------------------------------------------------------------
(* Properties of the date steps *)

\* t, or t without a trailing " 00:00:00"
Stripped(t) ==
    IF \E m \in Midnight : m[1] = t
    THEN (CHOOSE m \in Midnight : m[1] = t)[2] ELSE t

\* strptime accepts t under pattern f
Parses(t, f) == \E e \in Calendar : e[1] = t /\ e[2] = f

\* the schema has a primary day, month and year annotation
HasPrimaryGroup(m) ==
    \A ty \in Range(MONTH_DAY_YEAR) :
        \E i \in 1..Len(m.date) : m.date[i].type = ty /\ m.date[i].primary

\* the month/day/year string of row r of the source table
SourceDate(r) ==
    LET part(c) == IF ColData(input.df, c)[r] = NULL THEN "nan"
                   ELSE ColData(input.df, c)[r]
    IN  part("month") \o "/" \o part("day") \o "/" \o part("year")

\* C14: for a string that does not parse under the pattern, with or without
\* a trailing " 00:00:00", format_time raises when validate is true and
\* returns null when it is false; normalizer validates nothing, so a row
\* of a primary day/month/year group that is no date (day 31, month 2) has
\* a null timestamp and normalizer still returns.
C14_ValidateFlag ==
    /\ (/\ pc \in {"returned", "raised"}
        /\ "t" \in DOMAIN input
        /\ ~Parses(Stripped(input.t), input.time_format))
            => IF input.validate THEN pc = "raised"
               ELSE pc = "returned" /\ input.result = NULL
    /\ ("df" \in DOMAIN input /\ HasPrimaryGroup(input.mapper))
            => /\ pc # "raised"
               /\ pc \in {"start", "dates"}
                    \/ \A r \in 1..NRows(input.df) :
                          Parses(SourceDate(r), "%m/%d/%Y")
                            \/ ColData(df, "timestamp")[r] = NULL

\* normalizer has returned for a table whose second row has day 31, month 2
C14_Witness ==
    /\ pc = "done"
    /\ "df" \in DOMAIN input /\ HasPrimaryGroup(input.mapper)
    /\ NRows(input.df) = 2 /\ SourceDate(2) = "2/31/2020"
    /\ ColData(df, "timestamp")[1] # NULL
    /\ ColData(df, "timestamp")[2] = NULL
    /\ NRows(df_out) > 0

\* int(datetime.strptime(t, f).timestamp()) * 1000
EpochOf(t, f) == (CHOOSE e \in Calendar : e[1] = t /\ e[2] = f)[3]

\* C15: for a primary day/month/year group, the timestamp of every row
\* whose month/day/year string is a date under the declared patterns is
\* the epoch milliseconds of that string (6/15/2020 gives the epoch of
\* "06/15/2020" under "%m/%d/%Y"); a whole-number component reads "6",
\* not "6.0".
C15_DateCorrect ==
    (/\ "df" \in DOMAIN input
     /\ HasPrimaryGroup(input.mapper)
     /\ pc \notin {"start", "dates", "raised"})
        => \A r \in 1..NRows(input.df) :
            Parses(SourceDate(r), "%m/%d/%Y") =>
                /\ ColData(df, "timestamp")[r]
                        = EpochOf(SourceDate(r), "%m/%d/%Y")
                /\ SourceDate(r) = "6/15/2020" =>
                    ColData(df, "timestamp")[r]
                        = EpochOf("06/15/2020", "%m/%d/%Y")

-----------------------------------------------------------------------------
(* Properties of the geo classification *)

\* the country name the bundled lookup has for a code of the declared
\* type, or the code itself when it has none
CountryOf(code, geo_type) ==
    LET col == IF geo_type = "iso2" THEN 1 ELSE 2
    IN  IF \E e \in IsoLookup : e[col] = code
        THEN (CHOOSE e \in IsoLookup : e[col] = code)[3]
        ELSE code

\* C16: for a primary geo annotation of geo_type iso2 or iso3, once the geo
\* annotations are classified and before point geocoding or name
\* reconciliation runs, the column is named country, every code the lookup
\* has reads its country name and every other cell is unchanged.
C16_IsoResolution ==
    (/\ "mapper" \in DOMAIN input
     /\ input.mapper.geo # <<>>
     /\ input.mapper.geo[1].type \in {"iso2", "iso3"}
     /\ pc \notin {"start", "dates", "geos"})
        => /\ pc # "raised"
           /\ HasCol(df, "country")
           /\ \A r \in 1..NRows(input.df) :
                ColData(df, "country")[r] =
                    CountryOf(ColData(input.df, input.mapper.geo[1].name)[r],
                              input.mapper.geo[1].type)

-----------------------------------------------------------------------------
(* Properties of the caller's cache *)

\* C17: when a call of normalizer raises, the frame the caller passed as
\* df_geocode has the rows it had when the call was made, and so has the
\* frame the caller passes to its next call.
C17_FailureKeepsCache ==
    (/\ "before" \in DOMAIN input
     /\ \/ pc = "raised"
        \/ pc = "caller" /\ df_out = EmptyTable /\ input.calls > 0)
        => input.df_geocode = input.before

\* a call given a non-empty cache raised after geocode had resolved a new
\* point
C17_Witness ==
    /\ "before" \in DOMAIN input
    /\ pc = "raised"
    /\ input.before # <<>>
    /\ Len(df_geocode) > Len(input.before)

-----------------------------------------------------------------------------
(* Properties of the reserved geo slots *)

\* the reserved slot of a primary geo_type
PrimarySlot(geo_type) ==
    IF geo_type = "latitude" THEN "lat"
    ELSE IF geo_type = "longitude" THEN "lng"
    ELSE SlotOf(geo_type)

\* C18: for a primary geo annotation of any geo_type but iso2/iso3 and any
\* source column name, once the geo annotations are classified the source
\* column's data is in the reserved slot of the geo_type (lat, lng, country,
\* admin1, admin2, admin3), and for geo_type coordinates the columns lng and
\* lat hold the two parts of the combined column.
C18_GeoSlots ==
    (/\ "mapper" \in DOMAIN input
     /\ input.mapper.geo # <<>>
     /\ input.mapper.geo[1].primary
     /\ input.mapper.geo[1].type \notin {"iso2", "iso3"}
     /\ pc \notin {"start", "dates", "geos", "pivot", "assemble", "done"})
        => LET g == input.mapper.geo[1]
               src == ColData(input.df, g.name)
           IN  /\ pc # "raised"
               /\ IF g.type = "coordinates"
                  THEN /\ HasCol(df, "lng") /\ HasCol(df, "lat")
                       /\ \A r \in 1..NRows(input.df) :
                            src[r] = ColData(df, "lng")[r] \o ","
                                        \o ColData(df, "lat")[r]
                  ELSE /\ HasCol(df, PrimarySlot(g.type))
                       /\ ColData(df, PrimarySlot(g.type)) = src

-----------------------------------------------------------------------------
(* Properties of secondary dates *)

\* the secondary single-date annotations of the schema normalizer was
\* called with
SecondaryDates ==
    {i \in 1..Len(input.mapper.date) :
        /\ input.mapper.date[i].type = "date"
        /\ ~input.mapper.date[i].primary}

\* C19: on a schema with a secondary single date field normalizer completes,
\* whether or not the schema has a primary date; every source row yields a
\* feature row labelled with the field's column name whose value is the
\* epoch milliseconds of the date; and when the schema has no primary date
\* the timestamp of that row is the same epoch.
C19_SecondaryDate ==
    (/\ "mapper" \in DOMAIN input
     /\ SecondaryDates # {}
     /\ pc \in {"done", "raised"})
        => /\ pc = "done"
           /\ \A i \in SecondaryDates : \A r \in 1..NRows(input.df) :
                LET d == input.mapper.date[i]
                    epoch == EpochOf(ColData(input.df, d.name)[r],
                                     d.time_format)
                IN  \E o \in OutputRows(r, d.name) :
                        /\ ColData(df_out, "value")[o] = epoch
                        /\ primary_time_cols(input.mapper) = <<>>
                            => ColData(df_out, "timestamp")[o] = epoch

-----------------------------------------------------------------------------
(* Properties of the qualifier map *)

\* the annotations in the order normalizer's loops meet them
Encountered(m) == m.date \o m.geo \o m.feature

\* the names of the annotations that name k in their qualifies list, in
\* encounter order
QualifiersOf(m, k) ==
    AnnNames(SelectSeq(Encountered(m), LAMBDA d : IsIn(k, d.qualifies)))

\* C20: once the three annotation loops have run, every target some
\* annotation qualifies (geo, date or feature, primary or not) has an entry
\* in the qualifier map that lists the qualifying annotations in the order
\* they are encountered.
C20_QualifiersRegistered ==
    (/\ "mapper" \in DOMAIN input
     /\ pc \in {"resolve", "pivot", "assemble", "done"})
        => \A k \in UNION {Range(d.qualifies) : d \in Range(Encountered(mapper))} :
                /\ OHas(qualified_col_dict, k)
                /\ OGet(qualified_col_dict, k) = QualifiersOf(mapper, k)

-----------------------------------------------------------------------------
(* Properties of qualifiers of reserved slots *)

\* the source column names of the primary annotations that fill a
\* reserved slot
SlotSources(m) ==
    {d.name : d \in {x \in Range(m.geo \o m.date) : x.primary}}

\* C21: when normalizer returns, a column that qualifies the source column
\* of a primary annotation (the primary country or the primary date) is a
\* column of the returned table and every returned row carries the value
\* the column has on the row's source row.
C21_SlotQualifierCarried ==
    (/\ "mapper" \in DOMAIN input
     /\ pc = "done")
        => \A q \in Range(AllAnnotations(input.mapper)) :
            (Range(q.qualifies) \cap SlotSources(input.mapper) # {})
                => /\ HasCol(df_out, q.name)
                   /\ \A o \in 1..NRows(df_out) :
                        ColData(df_out, q.name)[o] =
                            ColData(input.df, q.name)[df_out.idx[o] + 1]

-----------------------------------------------------------------------------
(* Properties of secondary qualifiers *)

\* C22: when normalizer returns, no row of the returned table has as its
\* feature label the name of a non-primary date or geo annotation whose
\* qualifies list is not empty.
C22_QualifierNoFeatureRows ==
    (/\ "mapper" \in DOMAIN input
     /\ pc = "done")
        => \A q \in Range(mapper.date \o mapper.geo) :
            (~q.primary /\ q.qualifies # <<>>)
                => \A o \in 1..NRows(df_out) :
                        ColData(df_out, "feature")[o] # q.name

-----------------------------------------------------------------------------
(* Properties of the promotion of secondary geo annotations *)

\* the non-primary, non-qualifying annotations of a slot's geo_type, in
\* schema order
Promotable(m, slot) ==
    SelectSeq(m.geo, LAMBDA g :
        ~g.primary /\ g.qualifies = <<>> /\ SlotOf(g.type) = slot)

\* C23: once the geo annotations are classified, if the schema has no
\* primary geo annotation, each of country, admin1, admin2, admin3 that has
\* promotable annotations holds the data of the first of them in schema
\* order and the ledger names that annotation; if the schema has a primary
\* geo annotation, every promotable annotation is a feature and no slot and
\* no ledger entry is made from it.
C23_SecondaryGeoPromotion ==
    (/\ "mapper" \in DOMAIN input
     /\ input.mapper.geo # <<>>
     /\ pc \in {"features", "resolve"})
        => \A slot \in {"country", "admin1", "admin2", "admin3"} :
            LET cands == Promotable(mapper, slot)
            IN  cands # <<>> =>
                IF primary_geo_cols(mapper) = <<>>
                THEN /\ HasCol(df, slot)
                     /\ ColData(df, slot) = ColData(input.df, cands[1].name)
                     /\ slot \in DOMAIN renamed_col_dict
                     /\ renamed_col_dict[slot] = <<cands[1].name>>
                ELSE /\ \A i \in 1..Len(cands) : IsIn(cands[i].name, features)
                     /\ slot \notin DOMAIN renamed_col_dict

-----------------------------------------------------------------------------
(* Properties of name reconciliation *)

\* the rows of the table whose admin1 value name reconciliation replaced
Replaced ==
    {r \in 1..NRows(df) :
        ColData(df, "admin1")[r] # ColData(input.df, "state")[r]}

\* C24: after name reconciliation, every row whose admin1 value was
\* replaced holds an admin1 name the gazetteer lists under the row's
\* country as reconciled; so no row takes a name from another country.
C24_ScopedToCountry ==
    (/\ "mapper" \in DOMAIN input
     /\ pc = "pivot"
     /\ HasCol(input.df, "state"))
        => \A r \in Replaced :
                IsIn(ColData(df, "admin1")[r],
                     GadmAdmin1(Gadm, ColData(df, "country")[r]))

\* C25: after name reconciliation, a row's admin1 value was replaced only
\* if it was replaced by a candidate of positive score: a value that
\* shares nothing with any candidate (score 0) is below every threshold
\* and stays as it is.
C25_BelowThresholdUnchanged ==
    (/\ "mapper" \in DOMAIN input
     /\ pc = "pivot"
     /\ HasCol(input.df, "state"))
        => \A r \in Replaced :
                partial_ratio(ColData(input.df, "state")[r],
                              ColData(df, "admin1")[r]) > 0

-----------------------------------------------------------------------------
(* Properties of secondary date groups *)

\* the non-primary day/month/year annotations that name associated columns
Grouped(m) ==
    {d \in Range(m.date) :
        ~d.primary /\ IsIn(d.type, MONTH_DAY_YEAR) /\ d.associated_columns # <<>>}

\* some grouped annotation names a column that no grouped annotation has
IncompleteGroups(m) ==
    \E d \in Grouped(m) : \E i \in 1..Len(d.associated_columns) :
        \A e \in Grouped(m) : e.name # d.associated_columns[i][2]

\* C26: on a schema with an incomplete associated date group (day and year
\* name a month column whose annotation is not of the group, or that has
\* no annotation) the date step ends in an error: normalizer does not go on
\* with a date assembled from a default component.
C26_IncompleteGroupRejected ==
    (/\ "mapper" \in DOMAIN input
     /\ IncompleteGroups(input.mapper)
     /\ pc \notin {"start", "dates"})
        => pc = "raised"

\* the epoch strings format_time can return
Epochs == {e[3] : e \in Calendar}

\* the date_types of the grouped annotations a ledger entry lists
GroupTypes(k) ==
    {d.type : d \in {g \in Grouped(mapper) : IsIn(g.name, renamed_col_dict[k])}}

\* C27: after the date step every grouped annotation is listed by exactly
\* one ledger entry; the column of a group with day, month and year holds
\* epoch milliseconds; the column of a group with fewer holds date strings,
\* is a feature and is not the timestamp column.
C27_GroupsDrained ==
    (/\ "mapper" \in DOMAIN input
     /\ Grouped(mapper) # {}
     /\ ~IncompleteGroups(mapper)
     /\ pc = "geos")
        => /\ \A g \in Grouped(mapper) :
                Cardinality({k \in DOMAIN renamed_col_dict :
                                IsIn(g.name, renamed_col_dict[k])}) = 1
           /\ \A k \in DOMAIN renamed_col_dict :
                GroupTypes(k) # {} =>
                    IF Cardinality(GroupTypes(k)) = 3
                    THEN \A r \in 1..NRows(df) : ColData(df, k)[r] \in Epochs
                    ELSE /\ k # "timestamp"
                         /\ IsIn(k, features)
                         /\ \A r \in 1..NRows(df) :
                                ColData(df, k)[r] \notin Epochs

\* the schema with its date annotations in name order and the entries of
\* every associated_columns in name order
InNameOrder(m) ==
    [m EXCEPT !.date =
        LET ds == SortSeq(m.date, LAMBDA a, b : RankOf(a.name) < RankOf(b.name))
        IN  [i \in 1..Len(ds) |->
                [ds[i] EXCEPT !.associated_columns =
                    SortSeq(@, LAMBDA a, b : RankOf(a[2]) < RankOf(b[2]))]]]

\* a ledger with the order of every list forgotten
Unordered(dct) == [k \in DOMAIN dct |-> Range(dct[k])]

\* C28: the date step gives what it gives on the same schema in name
\* order: the same columns, the same timestamp column, the same features,
\* the same qualifier map and the same ledger entries.
C28_OrderIndependent ==
    [][(pc = "dates" /\ Grouped(mapper) # {} /\ ~IncompleteGroups(mapper))
        => LET ref == DateGroupLoop(PrimaryDateGroup(
                        DateLoop(Locals, InNameOrder(mapper).date,
                                 InNameOrder(mapper))))
           IN  /\ Range(ColNames(df')) = Range(ColNames(ref.df))
               /\ HasCol(ref.df, "timestamp")
                    => ColData(df', "timestamp") = ColData(ref.df, "timestamp")
               /\ Range(features') = Range(ref.features)
               /\ {<<e[1], Range(e[2])>> : e \in Range(qualified_col_dict')}
                    = {<<e[1], Range(e[2])>> : e \in Range(ref.qualified_col_dict)}
               /\ Unordered(renamed_col_dict') = Unordered(ref.renamed_col_dict)]_vars

\* C29: when the first call on a file's schema resolved a reserved-name
\* collision, the call on the next chunk, which has the file's column names,
\* completes with the output columns and the ledger of the first call
C29_ChunksAlike ==
    ("chunk" \in DOMAIN input /\ input.chunk = 2
        /\ pc \in {"done", "raised"}
        /\ collision_list(input.mapper, COL_ORDER) # <<>>)
    => /\ pc = "done"
       /\ ColNames(df_out) = input.first[1].columns
       /\ renamed_col_dict = input.first[1].result_dict

\* the entry of k is one of a cyclic pair of the ledger: k -> [v] and
\* v -> [k] are both entries
InCyclicPair(dct, k) ==
    \E v \in DOMAIN dct : dct[k] = <<v>> /\ dct[v] = <<k>>

\* C30: audit_renamed_col_dict removes an entry only if it is one of a
\* cyclic pair, and returns every other entry of the ledger as it was
C30_OnlyCyclicPairsRemoved ==
    (pc = "audited" /\ "mapper" \notin DOMAIN input)
    => \A k \in DOMAIN input :
        ~InCyclicPair(input, k)
        => (k \in DOMAIN renamed_col_dict /\ renamed_col_dict[k] = input[k])

====
